---- MODULE Spec2Model ----
(***************************************************************************)
(* Model of the PST splitter core (src/src/pstsplitter): the grouping      *)
(* policies, the item filter, the transfer batcher and the split           *)
(* orchestrator.                                                           *)
(*                                                                         *)
(* Python strings are modelled as tuples of one-character strings, so that *)
(* split(), lower() and slicing are computed and not assumed.  None is the *)
(* empty tuple for the optional fields (received, sender_email, filters).  *)
(***************************************************************************)
EXTENDS Integers, Sequences, FiniteSets, TLC

(***************************************************************************)
(* Bounds of the model                                                     *)
(***************************************************************************)
\* longest item list handed to the grouping functions
MaxLen == 4
\* longest item list handed to _apply_filters
MaxFilterLen == 2
\* split_pst, small runs: the source holds 0..MaxSmallRun items
MaxSmallRun == 2
\* split_pst, large runs: the source holds a full standard batch plus
\* 0..MaxOverBatch items
MaxOverBatch == 2
\* split_pst, large runs: the outcome of a transfer depends on the item's
\* position modulo FaultPeriod
FaultPeriod == 2
\* only the first MaxZeroTimeGroup buckets may complete within one clock tick
MaxZeroTimeGroup == 1
\* a destination-creation fault hits one of the first MaxFaultBucket buckets
MaxFaultBucket == 2
MaxYearRun == 3
MaxRequests == 4
MaxCapacityErrors == 3

(***************************************************************************)
(* Strings                                                                 *)
(***************************************************************************)
UpperChars == <<"A","B","C","D","E","F","G","H","I","J","K","L","M",
                "N","O","P","Q","R","S","T","U","V","W","X","Y","Z">>
LowerChars == <<"a","b","c","d","e","f","g","h","i","j","k","l","m",
                "n","o","p","q","r","s","t","u","v","w","x","y","z">>

\* str.lower() on one character
LowerChar(c) ==
    IF \E i \in 1..Len(UpperChars) : UpperChars[i] = c
    THEN LowerChars[CHOOSE i \in 1..Len(UpperChars) : UpperChars[i] = c]
    ELSE c

\* str.lower()
Lower(s) == [i \in 1..Len(s) |-> LowerChar(s[i])]

RECURSIVE SplitFrom(_, _, _, _)
SplitFrom(s, sep, i, cur) ==
    IF i > Len(s) THEN <<cur>>
    ELSE IF s[i] = sep THEN <<cur>> \o SplitFrom(s, sep, i + 1, <<>>)
    ELSE SplitFrom(s, sep, i + 1, Append(cur, s[i]))

\* str.split(sep) for a one-character separator: "".split(sep) = [""]
Split(s, sep) == SplitFrom(s, sep, 1, <<>>)

\* "x" in s
HasChar(s, c) == \E i \in 1..Len(s) : s[i] = c

DigitChars == <<"0","1","2","3","4","5","6","7","8","9">>
Digit(d) == DigitChars[d + 1]

\* strftime with a slip: "%y", the year without its century
FormatYear_NoCentury(y) == <<Digit((y \div 10) % 10), Digit(y % 10)>>

\* strftime("%Y"): the year on four digits
FormatYear(y) ==
    <<Digit((y \div 1000) % 10), Digit((y \div 100) % 10),
      Digit((y \div 10) % 10), Digit(y % 10)>>

\* strftime("%Y-%m")
FormatYearMonth(y, m) ==
    FormatYear(y) \o <<"-", Digit((m \div 10) % 10), Digit(m % 10)>>

RECURSIVE FormatDecimal(_)
\* str(n) for n >= 0
FormatDecimal(n) ==
    IF n < 10 THEN <<Digit(n)>> ELSE Append(FormatDecimal(n \div 10), Digit(n % 10))

\* f"{n:0{width}d}"
RECURSIVE ZeroPad(_, _)
ZeroPad(s, width) == IF Len(s) >= width THEN s ELSE ZeroPad(<<"0">> \o s, width)

DigitValue(c) == (CHOOSE i \in 1..10 : DigitChars[i] = c) - 1

\* int(s) for a string of decimal digits
RECURSIVE ParseDecimal(_)
ParseDecimal(s) ==
    IF Len(s) = 1 THEN DigitValue(s[1])
    ELSE 10 * ParseDecimal(SubSeq(s, 1, Len(s) - 1)) + DigitValue(s[Len(s)])

(***************************************************************************)
(* datetime: <<year, month, day, hour>>; None is <<>>                      *)
(***************************************************************************)
None == <<>>

\* datetime.min
DatetimeMin == <<1, 1, 1, 0>>

\* a < b on datetimes
DtLess(a, b) ==
    \/ a[1] < b[1]
    \/ a[1] = b[1] /\ a[2] < b[2]
    \/ a[1] = b[1] /\ a[2] = b[2] /\ a[3] < b[3]
    \/ a[1] = b[1] /\ a[2] = b[2] /\ a[3] = b[3] /\ a[4] < b[4]

(***************************************************************************)
(* MailItemInfo                                                            *)
(***************************************************************************)
\* entry_id is a string of `len` characters that is unique to `key`
MailItemInfo(key, idlen, size, received, folder_path, sender_email) ==
    [entry_id |-> [key |-> key, len |-> idlen],
     size |-> size,
     received |-> received,
     folder_path |-> folder_path,
     sender_email |-> sender_email]

(***************************************************************************)
(* Generic sequence helpers                                                *)
(***************************************************************************)
RECURSIVE Flatten(_)
Flatten(ss) == IF ss = <<>> THEN <<>> ELSE Head(ss) \o Flatten(Tail(ss))

\* sum(it.size for it in its[lo..hi]), summed by halves
RECURSIVE SumRange(_, _, _)
SumRange(its, lo, hi) ==
    IF lo > hi THEN 0
    ELSE IF lo = hi THEN its[lo].size
    ELSE LET mid == (lo + hi) \div 2
         IN SumRange(its, lo, mid) + SumRange(its, mid + 1, hi)

SumSizes(its) == SumRange(its, 1, Len(its))

\* all sequences over S of length at most n
SeqsUpTo(S, n) == UNION {[1..k -> S] : k \in 0..n}

(***************************************************************************)
(* Grouping policies (splitter.py)                                         *)
(***************************************************************************)
\* the state of the loop of group_items_by_size before the first item
SizeStart == [bks |-> <<>>, current |-> <<>>, current_size |-> 0]

\* the body of the for-loop of group_items_by_size, for item it
SizeStep(st, it, max_bytes) ==
    LET size == it.size
    IN IF size > max_bytes
       THEN IF st.current # <<>>
            THEN [bks |-> Append(Append(st.bks, st.current), <<it>>),
                  current |-> <<>>, current_size |-> 0]
            ELSE [st EXCEPT !.bks = Append(@, <<it>>)]
       ELSE IF st.current_size + size > max_bytes /\ st.current # <<>>
            THEN [bks |-> Append(st.bks, st.current), current |-> <<it>>,
                  current_size |-> size]
            ELSE [st EXCEPT !.current = Append(@, it), !.current_size = @ + size]

\* the for-loop of group_items_by_size: the loop over its[lo..hi] entered in
\* state st runs over the first half of the range, then over the second half
SizeLoop(its, max_bytes) ==
    LET ItemSet == {its[i] : i \in 1..Len(its)}
        loop[lo \in Nat, hi \in Nat,
             st \in [bks : Seq(Seq(ItemSet)), current : Seq(ItemSet),
                     current_size : Nat]] ==
            IF lo > hi THEN st
            ELSE IF lo = hi THEN SizeStep(st, its[lo], max_bytes)
            ELSE LET mid == (lo + hi) \div 2
                 IN loop[mid + 1, hi, loop[lo, mid, st]]
    IN loop[1, Len(its), SizeStart]

\* group_items_by_size with a slip: "ge" closes a bucket that is exactly full,
\* "keep" leaves the open bucket open across an oversize item, "tail" forgets
\* the trailing flush
MutSizeStep(st, it, max_bytes, slip) ==
    LET size == it.size
    IN IF size > max_bytes
       THEN IF st.current # <<>> /\ slip # "keep"
            THEN [bks |-> Append(Append(st.bks, st.current), <<it>>),
                  current |-> <<>>, current_size |-> 0]
            ELSE [st EXCEPT !.bks = Append(@, <<it>>)]
       ELSE IF (IF slip = "ge" THEN st.current_size + size >= max_bytes
                               ELSE st.current_size + size > max_bytes)
               /\ st.current # <<>>
            THEN [bks |-> Append(st.bks, st.current), current |-> <<it>>,
                  current_size |-> size]
            ELSE [st EXCEPT !.current = Append(@, it), !.current_size = @ + size]

MutSizeLoop(its, max_bytes, slip) ==
    LET ItemSet == {its[i] : i \in 1..Len(its)}
        loop[lo \in Nat, hi \in Nat,
             st \in [bks : Seq(Seq(ItemSet)), current : Seq(ItemSet),
                     current_size : Nat]] ==
            IF lo > hi THEN st
            ELSE IF lo = hi THEN MutSizeStep(st, its[lo], max_bytes, slip)
            ELSE LET mid == (lo + hi) \div 2
                 IN loop[mid + 1, hi, loop[lo, mid, st]]
    IN loop[1, Len(its), SizeStart]

MutGroupBySize(its, max_bytes, slip) ==
    LET st == MutSizeLoop(its, max_bytes, slip)
    IN IF st.current # <<>> /\ slip # "tail" THEN Append(st.bks, st.current)
       ELSE st.bks

group_items_by_size_NoTailFlush(its, max_bytes) == MutGroupBySize(its, max_bytes, "tail")
group_items_by_size_ClosesFull(its, max_bytes) == MutGroupBySize(its, max_bytes, "ge")
group_items_by_size_KeepsOpen(its, max_bytes) == MutGroupBySize(its, max_bytes, "keep")

\* group_items_by_size: the loop, then the trailing flush
group_items_by_size(its, max_bytes) ==
    LET st == SizeLoop(its, max_bytes)
    IN IF st.current # <<>> THEN Append(st.bks, st.current) ELSE st.bks

\* a dict is a sequence of [key, val] entries in insertion order
DictHas(d, key) == \E i \in 1..Len(d) : d[i].key = key

\* defaultdict(list): d[key].append(it)
DictAppend(d, key, it) ==
    IF DictHas(d, key)
    THEN [i \in 1..Len(d) |->
            IF d[i].key = key
            THEN [key |-> key, val |-> Append(d[i].val, it)]
            ELSE d[i]]
    ELSE Append(d, [key |-> key, val |-> <<it>>])

\* d[key] = val
DictSet(d, key, val) ==
    IF DictHas(d, key)
    THEN [i \in 1..Len(d) |->
            IF d[i].key = key THEN [key |-> key, val |-> val] ELSE d[i]]
    ELSE Append(d, [key |-> key, val |-> val])

DictKeys(d) == [i \in 1..Len(d) |-> d[i].key]
DictValues(d) == [i \in 1..Len(d) |-> d[i].val]

RECURSIVE MonthLoop(_, _, _)
MonthLoop(its, k, groups) ==
    IF k > Len(its) THEN groups
    ELSE LET item == its[k]
             dt == IF item.received # None THEN item.received ELSE DatetimeMin
             month_key == FormatYearMonth(dt[1], dt[2])
         IN MonthLoop(its, k + 1, DictAppend(groups, month_key, item))

group_items_by_month(its) == MonthLoop(its, 1, <<>>)

Unknown_Date == <<"U","n","k","n","o","w","n","_","D","a","t","e">>

\* the for-loop of group_items_by_year; returns <<groups, unknown_items>>
RECURSIVE YearLoop(_, _, _, _)
YearLoop(its, k, groups, unknown_items) ==
    IF k > Len(its) THEN <<groups, unknown_items>>
    ELSE LET item == its[k]
         IN IF item.received # None
            THEN YearLoop(its, k + 1,
                          DictAppend(groups, FormatYear(item.received[1]), item),
                          unknown_items)
            ELSE YearLoop(its, k + 1, groups, Append(unknown_items, item))

\* group_items_by_year with a slip: the undated items are not returned
group_items_by_year_DropsUndated(its) == YearLoop(its, 1, <<>>, <<>>)[1]

\* group_items_by_year with a slip: the undated items are entered first
group_items_by_year_UnknownFirst(its) ==
    LET r == YearLoop(its, 1, <<>>, <<>>)
    IN IF r[2] # <<>> THEN <<[key |-> Unknown_Date, val |-> r[2]]>> \o r[1] ELSE r[1]

group_items_by_year(its) ==
    LET r == YearLoop(its, 1, <<>>, <<>>)
    IN IF r[2] # <<>> THEN DictSet(r[1], Unknown_Date, r[2]) ELSE r[1]

Root == <<"R","o","o","t">>

RECURSIVE FolderLoop(_, _, _)
FolderLoop(its, k, groups) ==
    IF k > Len(its) THEN groups
    ELSE LET item == its[k]
             folder_path == item.folder_path
             top_folder == IF folder_path # <<>>
                           THEN Split(folder_path, "/")[1]
                           ELSE Root
         IN FolderLoop(its, k + 1, DictAppend(groups, top_folder, item))

\* _group_by_folder with a slip: the whole path is the key, not its first
\* segment
RECURSIVE WholePathLoop(_, _, _)
WholePathLoop(its, k, groups) ==
    IF k > Len(its) THEN groups
    ELSE LET item == its[k]
             top_folder == IF item.folder_path # <<>> THEN item.folder_path ELSE Root
         IN WholePathLoop(its, k + 1, DictAppend(groups, top_folder, item))

_group_by_folder_WholePath(its) == WholePathLoop(its, 1, <<>>)

_group_by_folder(its) == FolderLoop(its, 1, <<>>)

(***************************************************************************)
(* Item filter (splitter.py)                                               *)
(***************************************************************************)
\* A filter set is a set of strings; None and the empty set are both falsy
\* and are both modelled as {}.  date_range is None or <<start, end>>.
_matches_folder_filter(folder_path, folder_filters) ==
    IF folder_path = <<>> THEN FALSE
    ELSE LET folder_parts == Split(folder_path, "\\")
         IN IF Len(folder_parts) >= 2
            THEN Lower(folder_parts[2]) \in folder_filters
            ELSE FALSE

_matches_sender_domain(sender_email, sender_domains) ==
    IF sender_email = <<>> \/ ~HasChar(sender_email, "@") THEN FALSE
    ELSE LET parts == Split(sender_email, "@")
             domain == Lower(parts[Len(parts)])
         IN domain \in sender_domains

\* _matches_date_range with a slip: an item without received time passes
_matches_date_range_KeepsUndated(item_date, start_date, end_date) ==
    IF item_date = None THEN TRUE
    ELSE IF start_date # None /\ DtLess(item_date, start_date) THEN FALSE
    ELSE IF end_date # None /\ DtLess(end_date, item_date) THEN FALSE
    ELSE TRUE

_matches_date_range(item_date, start_date, end_date) ==
    IF item_date = None THEN FALSE
    ELSE IF start_date # None /\ DtLess(item_date, start_date) THEN FALSE
    ELSE IF end_date # None /\ DtLess(end_date, item_date) THEN FALSE
    ELSE TRUE

\* _apply_filters with a slip: the sender filter removes the rejected items
\* from the list it is iterating over, so the item after a removed one is
\* never looked at
RECURSIVE RemoveWhileIterating(_, _, _)
RemoveWhileIterating(lst, i, doms) ==
    IF i > Len(lst) THEN lst
    ELSE IF ~_matches_sender_domain(lst[i].sender_email, doms)
         THEN RemoveWhileIterating(SubSeq(lst, 1, i - 1) \o SubSeq(lst, i + 1, Len(lst)),
                                   i + 1, doms)
         ELSE RemoveWhileIterating(lst, i + 1, doms)

_apply_filters_RemovesInPlace(its, inc, exc, doms, dr) ==
    IF doms = {} THEN its ELSE RemoveWhileIterating(its, 1, doms)

_apply_filters(its, inc, exc, doms, dr) ==
    LET IncTest(item) == _matches_folder_filter(item.folder_path, inc)
        ExcTest(item) == ~_matches_folder_filter(item.folder_path, exc)
        DomTest(item) == _matches_sender_domain(item.sender_email, doms)
        DateTest(item) == _matches_date_range(item.received, dr[1], dr[2])
        f1 == IF inc # {} THEN SelectSeq(its, IncTest) ELSE its
        f2 == IF exc # {} THEN SelectSeq(f1, ExcTest) ELSE f1
        f3 == IF doms # {} THEN SelectSeq(f2, DomTest) ELSE f2
        f4 == IF dr # None
              THEN IF dr[1] # None \/ dr[2] # None
                   THEN SelectSeq(f3, DateTest)
                   ELSE f3
              ELSE f3
    IN f4

\* str.split(sep, 1) for a one-character separator
SplitOnce(s, sep) ==
    IF HasChar(s, sep)
    THEN LET i == CHOOSE i \in 1..Len(s) : s[i] = sep /\ \A j \in 1..(i - 1) : s[j] # sep
         IN <<SubSeq(s, 1, i - 1), SubSeq(s, i + 1, Len(s))>>
    ELSE <<s>>

\* cli._parse_date_range.parse_one: datetime.strptime(p, "%Y-%m-%d"), whose
\* time of day is 00:00
parse_one(p) ==
    IF p = <<>> THEN None
    ELSE LET f == Split(p, "-")
         IN <<ParseDecimal(f[1]), ParseDecimal(f[2]), ParseDecimal(f[3]), 0>>

\* cli._parse_date_range
_parse_date_range(spec) ==
    IF spec = <<>> THEN None
    ELSE LET parts == SplitOnce(spec, ":")
         IN IF Len(parts) = 1
            THEN <<parse_one(parts[1]), None>>
            ELSE <<parse_one(parts[1]), parse_one(parts[2])>>

(***************************************************************************)
(* State                                                                   *)
(***************************************************************************)
VARIABLES
    items,        \* the item list handed to the function under study
    max_bytes,    \* size threshold of group_items_by_size
    phase,        \* "input", or the name of the call that has returned
    buckets,      \* returned buckets: a sequence of item lists
    keys,         \* returned bucket keys (dict-returning functions)
    include_folders,  \* _apply_filters: include set ({} when not supplied)
    exclude_folders,  \* _apply_filters: exclude set ({} when not supplied)
    sender_domains,   \* _apply_filters: domain set ({} when not supplied)
    date_range,       \* _apply_filters: None or <<start, end>>
    date_spec,        \* cli: --date-range as typed (None when not given)
    filtered,         \* result of _apply_filters on items
    refiltered,       \* result of _apply_filters on filtered
    pc,               \* split_pst / copy_items_optimized: control point
    cancel,           \* the cancel Event
    mode,             \* split_pst parameter
    max_size_bytes,   \* split_pst parameter: None or <<n>>
    caller,           \* who calls split_pst: "api", "cli" or "gui"
    fault,            \* the step of the run that fails, if any: [at, bucket], bucket
                      \* being the bucket whose creation fails or, for "capacity",
                      \* the number of enumeration passes that fail
    turbo_mode,       \* split_pst parameter, cleared by the health check
    dry_run,          \* split_pst parameter
    risk,             \* risk level the space analysis reports for the source
    store_items,      \* the items of the source store, in enumeration order
    outcome,          \* outcome of copy_item_to_store for each entry key
    zero_time,        \* bucket indexes whose transfer measures 0 ms elapsed
    total_items,      \* split_pst local
    total_bytes,      \* split_pst local
    groups,           \* split_pst local: the buckets
    group_names,      \* split_pst local: their names
    gi,               \* split_pst: 1-based position of the bucket loop
    created_files,    \* split_pst local
    errors,           \* split_pst local
    cumulative_processed,  \* split_pst local
    progress,         \* last `done` handed to progress_cb (-1: none yet)
    attached,         \* stores attached to the Outlook session
    batch_size,       \* HighPerformancePSTProcessor.batch_size
    batch_start,      \* copy_items_optimized: start of the current batch (0-based)
    item_pos,         \* copy_items_optimized: next item of the bucket (0-based)
    processed_count,  \* copy_items_optimized local
    batch_success,    \* copy_items_optimized local
    results,          \* copy_items_optimized: the results dict
    attempted,        \* entry keys handed to copy_item_to_store, in call order
    succeeded,        \* entry keys counted in some success_count
    exported,         \* the analysis report has been exported
    result,           \* what split_pst returned (NoResult while running)
    enumerations,     \* split_pst: enumeration passes over the source so far
    written,          \* paths of the files the run has written, destinations aside
    copy_call,        \* the call of _optimized_item_transfer under study (CopyIdle: none)
    handler,          \* the call of handle_critically_full_pst under study (HandlerIdle: none)
    chunked,          \* the call of chunk_sequence under study (NotChunked: none)
    summary_csv,      \* split_pst parameter (cli: --summary): None or a path
    outlook_available,  \* is_outlook_available() as the caller sees it
    stream_size_mode,   \* cli: --stream
    exit_status,        \* cli: status main ends with (NotExited while running)
    worker,           \* gui: PSTSplitterApp._worker, 0 for None, else a thread
    threads,          \* gui: the state of each worker thread created so far
    gui_log,          \* gui: how each start request was answered
    fetchers,         \* gui: the state of each folder-fetch thread created so far
    dialog_open       \* gui: the modal Fetch Folders dialog is open

groupVars == <<items, max_bytes, phase, buckets, keys>>
filterVars == <<include_folders, exclude_folders, sender_domains, date_range, date_spec,
                filtered, refiltered>>
appVars == <<outlook_available, stream_size_mode, summary_csv, exit_status, worker,
             threads, gui_log, fetchers, dialog_open>>
runCore == <<pc, cancel, mode, max_size_bytes, caller, fault, turbo_mode,
             dry_run, risk, exported, store_items, outcome, zero_time, total_items, total_bytes, groups,
             group_names, gi, created_files, errors, cumulative_processed,
             progress, attached, batch_size, batch_start, item_pos,
             processed_count, batch_success, results, attempted, succeeded,
             result, enumerations, written>>
callVars == <<copy_call, handler, chunked>>
splitVars == <<runCore, callVars>>
runVars == <<appVars, splitVars>>
vars == <<groupVars, filterVars, runVars>>

NoResult == [kind |-> "none"]

\* no step of the run fails
NoFault == [at |-> "none", bucket |-> 0]

\* the results dict as copy_items_optimized creates it
NewResults == [success_count |-> 0, failed_items |-> <<>>,
               batches_processed |-> 0, cancelled |-> FALSE]

\* the split_pst state while no run is under study
\* main has not ended
NotExited == -1

\* the window while no start request is under study
GuiIdle ==
    /\ worker = 0 /\ threads = <<>> /\ gui_log = <<>>
    /\ fetchers = <<>> /\ dialog_open = FALSE

\* the callers' state while no caller is under study
AppIdle ==
    /\ outlook_available = TRUE /\ stream_size_mode = FALSE
    /\ summary_csv = None
    /\ exit_status = NotExited
    /\ GuiIdle

\* no call of _optimized_item_transfer is under study
CopyIdle ==
    [pc |-> "idle", item_found |-> TRUE, ready_at |-> 0, copy_error |-> "none",
     move |-> FALSE, attempt |-> 0, dest_store |-> FALSE, slept |-> <<>>,
     transferred |-> "no", returns |-> "pending"]

\* no call of handle_critically_full_pst is under study
HandlerIdle ==
    [pc |-> "idle", outcomes |-> <<>>, tried |-> <<>>,
     results |-> [success |-> FALSE, method_used |-> None, errors |-> <<>>]]

\* no call of chunk_sequence has returned
NotChunked == [returned |-> FALSE, out |-> <<>>]

CallsIdle == copy_call = CopyIdle /\ handler = HandlerIdle /\ chunked = NotChunked

RunIdle ==
    /\ AppIdle
    /\ CallsIdle
    /\ pc = "idle" /\ cancel = FALSE /\ mode = "size" /\ max_size_bytes = None
    /\ caller = "api" /\ fault = NoFault /\ exported = FALSE
    /\ turbo_mode = FALSE /\ dry_run = FALSE /\ risk = "LOW"
    /\ store_items = <<>> /\ outcome = <<>> /\ zero_time = {}
    /\ total_items = 0 /\ total_bytes = 0 /\ groups = <<>> /\ group_names = <<>>
    /\ gi = 0 /\ created_files = <<>> /\ errors = <<>>
    /\ cumulative_processed = 0 /\ progress = -1 /\ attached = {}
    /\ batch_size = 0 /\ batch_start = 0 /\ item_pos = 0 /\ processed_count = 0
    /\ batch_success = 0 /\ results = NewResults /\ attempted = <<>>
    /\ succeeded = {} /\ result = NoResult
    /\ enumerations = 0 /\ written = {}

\* the filter state while no filter call is under study
FilterIdle ==
    /\ include_folders = {} /\ exclude_folders = {} /\ sender_domains = {}
    /\ date_range = None /\ date_spec = None /\ filtered = <<>> /\ refiltered = <<>>

(***************************************************************************)
(* Specification Spec: the four grouping functions on bounded inputs       *)
(***************************************************************************)
Str_Inbox == <<"I","n","b","o","x">>
Str_inbox == <<"i","n","b","o","x">>
Str_InboxSub == <<"I","n","b","o","x","/","S","u","b">>
Str_SentItems == <<"S","e","n","t"," ","I","t","e","m","s">>
Str_SentItemsOld == <<"S","e","n","t"," ","I","t","e","m","s","/","O","l","d">>

\* the kinds of item the grouping functions are run on
GroupKinds ==
    { [size |-> 10,  received |-> <<2021, 3, 1, 0>>,    folder_path |-> Str_Inbox],
      [size |-> 20,  received |-> <<2022, 7, 15, 12>>,  folder_path |-> Str_InboxSub],
      [size |-> 30,  received |-> None,                 folder_path |-> Str_SentItems],
      [size |-> 40,  received |-> <<2021, 12, 31, 23>>, folder_path |-> <<>>],
      [size |-> 200, received |-> None,                 folder_path |-> Str_inbox],
      [size |-> 0,   received |-> <<2022, 7, 1, 0>>,    folder_path |-> Str_SentItemsOld] }

Limits == {10, 50, 100}

ItemsOfKinds(ks) ==
    [k \in 1..Len(ks) |->
        MailItemInfo(k, 48, ks[k].size, ks[k].received, ks[k].folder_path, <<>>)]

Init ==
    /\ \E ks \in SeqsUpTo(GroupKinds, MaxLen) : items = ItemsOfKinds(ks)
    /\ max_bytes \in Limits
    /\ phase = "input"
    /\ buckets = <<>>
    /\ keys = <<>>
    /\ FilterIdle
    /\ RunIdle

CallGroupBySize ==
    /\ phase = "input"
    /\ buckets' = group_items_by_size(items, max_bytes)
    /\ keys' = <<>>
    /\ phase' = "size"
    /\ UNCHANGED <<items, max_bytes, filterVars, runVars>>

CallGroupByYear ==
    /\ phase = "input"
    /\ LET d == group_items_by_year(items)
       IN buckets' = DictValues(d) /\ keys' = DictKeys(d)
    /\ phase' = "year"
    /\ UNCHANGED <<items, max_bytes, filterVars, runVars>>

CallGroupByMonth ==
    /\ phase = "input"
    /\ LET d == group_items_by_month(items)
       IN buckets' = DictValues(d) /\ keys' = DictKeys(d)
    /\ phase' = "month"
    /\ UNCHANGED <<items, max_bytes, filterVars, runVars>>

CallGroupByFolder ==
    /\ phase = "input"
    /\ LET d == _group_by_folder(items)
       IN buckets' = DictValues(d) /\ keys' = DictKeys(d)
    /\ phase' = "folder"
    /\ UNCHANGED <<items, max_bytes, filterVars, runVars>>

Next ==
    \/ CallGroupBySize
    \/ CallGroupByYear
    \/ CallGroupByMonth
    \/ CallGroupByFolder

Spec == Init /\ [][Next]_vars

(***************************************************************************)
(* Properties of the grouping functions                                    *)
(***************************************************************************)
SizesOf(its) == [k \in 1..Len(its) |-> its[k].size]
BucketSizes(bks) == [b \in 1..Len(bks) |-> SizesOf(bks[b])]
IsOversizeSingleton(b) == Len(b) = 1 /\ b[1].size > max_bytes

\* C1: after group_items_by_size on a non-empty list with max_bytes > 0, no
\* bucket is empty, every bucket sums to at most max_bytes unless it is a
\* singleton holding one item larger than max_bytes, and the buckets
\* concatenated in order are the input list.
C1_SizeBuckets ==
    (phase = "size" /\ items # <<>> /\ max_bytes > 0) =>
        /\ \A b \in 1..Len(buckets) :
              /\ buckets[b] # <<>>
              /\ SumSizes(buckets[b]) <= max_bytes \/ IsOversizeSingleton(buckets[b])
        /\ Flatten(buckets) = items

\* a run that has an oversize singleton, a bucket filled exactly to the limit
\* and a bucket of several items
C1_Witness ==
    /\ phase = "size" /\ items # <<>>
    /\ \E b \in 1..Len(buckets) : IsOversizeSingleton(buckets[b])
    /\ \E b \in 1..Len(buckets) :
          Len(buckets[b]) >= 2 /\ SumSizes(buckets[b]) = max_bytes

\* C2: grouping by size is greedy: whenever a bucket A is followed by a bucket
\* B whose first item is not larger than max_bytes, that item did not fit in
\* A (sum(A) + its size > max_bytes); in particular this holds for any two
\* consecutive buckets that are not oversize singletons; and the sizes
\* [10,20,30,40] with limit 50 give [[10,20],[30],[40]].
C2_Greedy ==
    phase = "size" =>
        /\ \A b \in 1..(Len(buckets) - 1) :
              buckets[b + 1][1].size <= max_bytes =>
                  SumSizes(buckets[b]) + buckets[b + 1][1].size > max_bytes
        /\ \A b \in 1..(Len(buckets) - 1) :
              (~IsOversizeSingleton(buckets[b]) /\ ~IsOversizeSingleton(buckets[b + 1])) =>
                  SumSizes(buckets[b]) + buckets[b + 1][1].size > max_bytes
        /\ (SizesOf(items) = <<10, 20, 30, 40>> /\ max_bytes = 50) =>
              BucketSizes(buckets) = << <<10, 20>>, <<30>>, <<40>> >>

\* the example run, and a run where a bucket was filled exactly to the limit
\* before the next one was opened
C2_Witness ==
    /\ phase = "size"
    /\ \/ SizesOf(items) = <<10, 20, 30, 40>> /\ max_bytes = 50
       \/ /\ SizesOf(items) = <<10, 40, 10>> /\ max_bytes = 50
          /\ Len(buckets) = 2

\* index of the bucket that holds the item with entry key k
BucketOf(bks, k) ==
    CHOOSE b \in 1..Len(bks) : \E j \in 1..Len(bks[b]) : bks[b][j].entry_id.key = k

\* C3: an item larger than max_bytes is alone in its bucket, and the items
\* right before and right after it are in different buckets; the sizes
\* [10,200,20] with limit 100 give [[10],[200],[20]].
C3_OversizeIsolation ==
    phase = "size" =>
        /\ \A b \in 1..Len(buckets) : \A j \in 1..Len(buckets[b]) :
              buckets[b][j].size > max_bytes => Len(buckets[b]) = 1
        /\ \A k \in 2..(Len(items) - 1) :
              items[k].size > max_bytes =>
                  /\ \A x \in {k - 1, k + 1} :
                        \E b \in 1..Len(buckets) : \E j \in 1..Len(buckets[b]) :
                            buckets[b][j] = items[x]
                  /\ BucketOf(buckets, k - 1) # BucketOf(buckets, k + 1)
        /\ (SizesOf(items) = <<10, 200, 20>> /\ max_bytes = 100) =>
              BucketSizes(buckets) = << <<10>>, <<200>>, <<20>> >>

\* an oversize item between two items that would fit together in one bucket
C3_Witness ==
    /\ phase = "size"
    /\ \E k \in 2..(Len(items) - 1) :
          /\ items[k].size > max_bytes
          /\ items[k - 1].size + items[k + 1].size <= max_bytes
          /\ items[k - 1].size > 0 /\ items[k + 1].size > 0

\* number of places of the returned buckets that hold item it
Occurrences(bks, it) ==
    Cardinality({<<b, j>> \in (1..Len(bks)) \X (1..MaxLen + 1) :
                    j <= Len(bks[b]) /\ bks[b][j] = it})

\* C4: each grouping function returns a partition of its input: every input
\* item is in exactly one place of exactly one bucket, the buckets hold
\* nothing else, and inside a bucket the items are in input order.
C4_Partition ==
    phase \in {"size", "year", "month", "folder"} =>
        /\ \A k \in 1..Len(items) : Occurrences(buckets, items[k]) = 1
        /\ \A b \in 1..Len(buckets) : \A j \in 1..Len(buckets[b]) :
              \E k \in 1..Len(items) : items[k] = buckets[b][j]
        /\ \A b \in 1..Len(buckets) : \A i, j \in 1..Len(buckets[b]) :
              i < j => buckets[b][i].entry_id.key < buckets[b][j].entry_id.key

\* a dict-returning function has put dated and undated items, out of input
\* order across buckets, into several buckets
C4_Witness ==
    /\ phase \in {"year", "month", "folder"}
    /\ Len(buckets) >= 2
    /\ \E k \in 1..Len(items) : items[k].received = None
    /\ \E k \in 1..Len(items) : items[k].received # None
    /\ Flatten(buckets) # items

\* the positions of the buckets named key
BucketsNamed(key) == {b \in 1..Len(keys) : keys[b] = key}

\* bucket b holds item it
Holds(b, it) == \E j \in 1..Len(buckets[b]) : buckets[b][j] = it

Undated == {k \in 1..Len(items) : items[k].received = None}

Str_2021 == <<"2","0","2","1">>
Str_2022 == <<"2","0","2","2">>

\* C18: year mode.  After group_items_by_year every item with a received time
\* is in the bucket whose name is its year written on four digits, all items
\* without a received time are in one single bucket named Unknown_Date, which
\* exists iff there is such an item, no name is used twice; and items dated
\* 2021-03-01, 2022-07-15 and undated give the buckets 2021, 2022 and
\* Unknown_Date with one item each.
C18_YearBuckets ==
    phase = "year" =>
        /\ \A a, b \in 1..Len(keys) : keys[a] = keys[b] => a = b
        /\ \A k \in 1..Len(items) :
              \E b \in 1..Len(keys) :
                  /\ Holds(b, items[k])
                  /\ IF items[k].received = None
                     THEN keys[b] = Unknown_Date
                     ELSE /\ Len(keys[b]) = 4
                          /\ \A c \in 1..4 : \E i \in 1..10 : DigitChars[i] = keys[b][c]
                          /\ ParseDecimal(keys[b]) = items[k].received[1]
        /\ (BucketsNamed(Unknown_Date) # {}) <=> (Undated # {})
        /\ ([k \in 1..Len(items) |-> items[k].received]
                = << <<2021, 3, 1, 0>>, <<2022, 7, 15, 12>>, None >>) =>
              /\ Len(keys) = 3
              /\ \E b \in BucketsNamed(Str_2021) : buckets[b] = <<items[1]>>
              /\ \E b \in BucketsNamed(Str_2022) : buckets[b] = <<items[2]>>
              /\ \E b \in BucketsNamed(Unknown_Date) : buckets[b] = <<items[3]>>

\* the example, and a grouping where two undated items that are not
\* neighbours share the bucket Unknown_Date and two items share a year
C18_Witness ==
    /\ phase = "year"
    /\ \/ [k \in 1..Len(items) |-> items[k].received]
              = << <<2021, 3, 1, 0>>, <<2022, 7, 15, 12>>, None >>
       \/ /\ Len(items) = 4
          /\ Undated = {1, 3}
          /\ items[2].received[1] = items[4].received[1]
          /\ items[2].received # items[4].received
          /\ Len(keys) = 2

\* the characters of path in front of its first slash
FirstSegment(path) ==
    LET slashes == {i \in 1..Len(path) : path[i] = "/"}
        stop == IF slashes = {} THEN Len(path) + 1
                ELSE CHOOSE i \in slashes : \A j \in slashes : i <= j
    IN SubSeq(path, 1, stop - 1)

\* the name of the bucket an item belongs to in folder mode
FolderKeyOf(it) ==
    IF it.folder_path = <<>> THEN <<"R","o","o","t">> ELSE FirstSegment(it.folder_path)

\* the position of the first item whose bucket is named key
FirstInFolder(key) ==
    CHOOSE k \in 1..Len(items) :
        /\ FolderKeyOf(items[k]) = key
        /\ \A k2 \in 1..(k - 1) : FolderKeyOf(items[k2]) # key

Str_ArchiveInbox == <<"A","\\","I","n","b","o","x">>
Str_sentitems == <<"s","e","n","t"," ","i","t","e","m","s">>
Str_a_at_x == <<"a","@","x">>
Str_b_at_X == <<"b","@","X">>
Str_c_at_y == <<"c","@","y">>
Str_n == <<"n">>
Str_x == <<"x">>
Str_y == <<"y">>

RangeStart == <<2021, 3, 1, 0>>
RangeEnd == <<2021, 3, 31, 0>>

\* the kinds of item the filter is run on
FilterKinds ==
    { [folder_path |-> Str_Inbox,        sender_email |-> Str_a_at_x, received |-> <<2021, 3, 1, 0>>],
      [folder_path |-> Str_InboxSub,     sender_email |-> Str_b_at_X, received |-> <<2021, 3, 31, 15>>],
      [folder_path |-> Str_SentItems,    sender_email |-> Str_c_at_y, received |-> <<2021, 4, 1, 0>>],
      [folder_path |-> <<>>,             sender_email |-> Str_n,      received |-> None],
      [folder_path |-> Str_ArchiveInbox, sender_email |-> <<>>,       received |-> <<2021, 2, 28, 23>>],
      [folder_path |-> Str_Inbox,        sender_email |-> Str_c_at_y, received |-> None],
      [folder_path |-> Str_SentItems,    sender_email |-> Str_a_at_x, received |-> <<2021, 3, 31, 0>>],
      [folder_path |-> Str_inbox,        sender_email |-> Str_b_at_X, received |-> <<2021, 3, 15, 9>>] }

FolderSets == { {}, {Str_inbox}, {Str_inbox, Str_sentitems} }
DomainSets == { {}, {Str_x} }
DateRanges == { None, <<None, None>>, <<RangeStart, None>>, <<None, RangeEnd>>,
                <<RangeStart, RangeEnd>> }

ItemsOfFilterKinds(ks) ==
    [k \in 1..Len(ks) |->
        MailItemInfo(k, 48, 10, ks[k].received, ks[k].folder_path, ks[k].sender_email)]

InitFilter ==
    /\ \E ks \in SeqsUpTo(FilterKinds, MaxFilterLen) : items = ItemsOfFilterKinds(ks)
    /\ include_folders \in FolderSets
    /\ exclude_folders \in FolderSets
    /\ sender_domains \in DomainSets
    /\ date_range \in DateRanges
    /\ date_spec = None
    /\ filtered = <<>>
    /\ refiltered = <<>>
    /\ phase = "input"
    /\ max_bytes = 0
    /\ buckets = <<>>
    /\ keys = <<>>
    /\ RunIdle

ApplyFilters ==
    /\ phase = "input"
    /\ filtered' = _apply_filters(items, include_folders, exclude_folders,
                                  sender_domains, date_range)
    /\ phase' = "filtered"
    /\ UNCHANGED <<items, max_bytes, buckets, keys, include_folders, exclude_folders,
                   sender_domains, date_range, date_spec, refiltered, runVars>>

ApplyFiltersAgain ==
    /\ phase = "filtered"
    /\ refiltered' = _apply_filters(filtered, include_folders, exclude_folders,
                                    sender_domains, date_range)
    /\ phase' = "refiltered"
    /\ UNCHANGED <<items, max_bytes, buckets, keys, include_folders, exclude_folders,
                   sender_domains, date_range, date_spec, filtered, runVars>>

NextFilter ==
    \/ ApplyFilters
    \/ ApplyFiltersAgain

SpecFilter == InitFilter /\ [][NextFilter]_vars

(***************************************************************************)
(* Properties of the item filter                                           *)
(***************************************************************************)
Filtered == phase \in {"filtered", "refiltered"}
IsKept(it) == \E j \in 1..Len(filtered) : filtered[j] = it

\* the top-level segment of a slash-separated folder path, lower-cased
TopSegment(folder_path) == Lower(Split(folder_path, "/")[1])

\* the folder predicate as the specification words it
TopLevelIn(it, names) ==
    it.folder_path # <<>> /\ TopSegment(it.folder_path) \in names

\* C5: folder filters match on the top-level segment of the slash-separated
\* folder path, case-insensitively: with include_folders = {"inbox"} (and no
\* other filter) an item at "Inbox" or "Inbox/Sub" is kept, and with
\* exclude_folders = {"inbox"} (and no other filter) it is dropped.
C5_TopLevelFolderMatch ==
    (Filtered /\ sender_domains = {} /\ date_range = None) =>
        \A k \in 1..Len(items) :
            items[k].folder_path \in {Str_Inbox, Str_InboxSub} =>
                /\ (include_folders = {Str_inbox} /\ exclude_folders = {})
                       => IsKept(items[k])
                /\ (exclude_folders = {Str_inbox} /\ include_folders = {})
                       => ~IsKept(items[k])

DateBounded == date_range # None /\ (date_range[1] # None \/ date_range[2] # None)

\* start <= received <= end, a missing bound being open
InDateRange(it) ==
    /\ it.received # None
    /\ date_range[1] # None =>
          (it.received = date_range[1] \/ DtLess(date_range[1], it.received))
    /\ date_range[2] # None =>
          (it.received = date_range[2] \/ DtLess(it.received, date_range[2]))

\* C6: when a start and/or end bound is set, only items whose received time is
\* present and within start <= received <= end are kept, so undated items are
\* dropped; with no other filter supplied the kept items are exactly those;
\* when the range is absent or both bounds are absent the date filter keeps
\* every item.
C6_DateRange ==
    Filtered =>
        /\ DateBounded => \A j \in 1..Len(filtered) : InDateRange(filtered[j])
        /\ (include_folders = {} /\ exclude_folders = {} /\ sender_domains = {}) =>
              IF DateBounded
              THEN filtered = SelectSeq(items, InDateRange)
              ELSE filtered = items

\* a bounded range has kept an item on its start bound and dropped an undated
\* item and an item past the end bound
C6_Witness ==
    /\ Filtered /\ date_range = <<RangeStart, RangeEnd>>
    /\ include_folders = {} /\ exclude_folders = {} /\ sender_domains = {}
    /\ \E k \in 1..Len(items) : items[k].received = None /\ ~IsKept(items[k])
    /\ \E k \in 1..Len(items) : items[k].received = RangeStart /\ IsKept(items[k])

\* the conjunction of the supplied predicates, as the specification words them
SatisfiesSupplied(it) ==
    /\ include_folders # {} => TopLevelIn(it, include_folders)
    /\ exclude_folders # {} => ~TopLevelIn(it, exclude_folders)
    /\ sender_domains # {} =>
          _matches_sender_domain(it.sender_email, sender_domains)
    /\ DateBounded => InDateRange(it)

\* C7: _apply_filters keeps an item iff it satisfies every supplied predicate
\* (top-level folder in the include set, top-level folder not in the exclude
\* set, sender domain in the domain set, received in the date range), skipping
\* the filters that are not supplied, and returns the kept items in input
\* order; a folder named by both include and exclude is dropped.
C7_KeepsIffAllSupplied ==
    Filtered =>
        /\ filtered = SelectSeq(items, SatisfiesSupplied)
        /\ \A k \in 1..Len(items) :
              (TopLevelIn(items[k], include_folders)
               /\ TopLevelIn(items[k], exclude_folders)) => ~IsKept(items[k])

\* C8: filtering is idempotent: _apply_filters applied to its own result,
\* with the same configuration, returns that result unchanged.
C8_FilterIdempotent ==
    phase = "refiltered" => refiltered = filtered

\* the second application ran on a result from which the first one had
\* dropped some items and kept others
C8_Witness ==
    /\ phase = "refiltered"
    /\ filtered # <<>>
    /\ Len(filtered) < Len(items)
    /\ sender_domains # {}

(***************************************************************************)
(* Transfer batcher and split orchestrator                                 *)
(* (performance_optimizer.py, splitter.py)                                 *)
(***************************************************************************)
\* batch sizes split_pst gives the processor
StandardBatchSize == 50
TurboBatchSize == 100
\* copy_items_optimized reports progress every ProgressEvery items
ProgressEvery == 5
\* failed_items keeps the first IdKeep characters of an entry id
IdKeep == 50

\* split_pst always switches the processor's performance mode on
performance_mode == TRUE

\* what a call of OutlookSession.copy_item_to_store can do: transfer the item,
\* return without doing anything (item or destination store not found), or
\* raise
TransferOutcomes == {"copied", "skipped", "raised"}

Str_part == <<"p","a","r","t">>
Str_src == <<"s","r","c">>
Str_dotpst == <<".","p","s","t">>
Str_Processed == <<"P","r","o","c","e","s","s","e","d">>
Str_items == <<"i","t","e","m","s">>

\* f"part{i+1:03d}" for the 0-based bucket index i
PartName(i) == Str_part \o ZeroPad(FormatDecimal(i + 1), 3)

\* output_dir / f"{source_pst.stem}_{group_name}.pst"
TargetPath(group_name) == Str_src \o <<"_">> \o group_name \o Str_dotpst

\* the source PST path
SourcePath == Str_src \o Str_dotpst

\* f"Processed {processed_count}/{total_items} items"
ProgressMessage(done, total) ==
    Str_Processed \o <<" ">> \o FormatDecimal(done) \o <<"/">>
        \o FormatDecimal(total) \o <<" ">> \o Str_items

\* copy_progress_callback: the `done` value it hands to progress_cb
copy_progress_callback(msg, cumulative) ==
    LET parts == Split(msg, " ")
        progress_part == parts[2]
        current_in_batch == ParseDecimal(Split(progress_part, "/")[1])
    IN cumulative + current_in_batch

\* item.entry_id[:n]
Truncate(entry_id, n) ==
    [key |-> entry_id.key, len |-> IF entry_id.len < n THEN entry_id.len ELSE n]

\* _optimized_item_transfer: True unless copy_item_to_store raised
_optimized_item_transfer(out) == out # "raised"

SplitResult(created, n_items, n_bytes, errs) ==
    [kind |-> "SplitResult", created_files |-> created, total_items |-> n_items,
     total_bytes |-> n_bytes, errors |-> errs]

\* the errors field of a SplitResult: None, or a list
ErrorsNone == [is_none |-> TRUE, list |-> <<>>]
ErrorsList(l) == [is_none |-> FALSE, list |-> l]

\* `errors if errors else None` with a slip: the list is returned as it is
errors_or_None_AsIs(errs) == ErrorsList(errs)

\* errors if errors else None
errors_or_None(errs) == IF errs # <<>> THEN ErrorsList(errs) ELSE ErrorsNone

Range(f) == {f[x] : x \in DOMAIN f}
MinOf(a, b) == IF a < b THEN a ELSE b

\* the bucket being processed and the end of its current batch (0-based,
\* exclusive)
CurGroup == groups[gi]
\* BatchEnd with a slip: the last item of a full batch is left to the next
\* batch, which starts after it
BatchEnd_ShortBatch ==
    IF batch_start + batch_size < Len(CurGroup)
    THEN batch_start + batch_size - 1
    ELSE Len(CurGroup)

BatchEnd == MinOf(batch_start + batch_size, Len(CurGroup))

\* variables no step of a run changes
givenVars == <<appVars, callVars, mode, max_size_bytes, caller, fault, dry_run, risk, store_items, outcome, zero_time,
               max_bytes, phase, buckets, keys, include_folders, exclude_folders,
               sender_domains, date_range, date_spec, filtered, refiltered>>
inputVars == <<givenVars, enumerations, written>>
batchVars == <<batch_start, item_pos, processed_count, batch_success, results>>

\* the cancel Event is set by the caller while the run is in progress
SetCancel ==
    /\ pc \notin {"idle", "done"}
    /\ ~cancel
    /\ cancel' = TRUE
    /\ UNCHANGED <<inputVars, exported, items, pc, turbo_mode, total_items, total_bytes, groups,
                   group_names, gi, created_files, errors, cumulative_processed,
                   progress, attached, batch_size, batchVars, attempted, succeeded,
                   result>>

\* the int behind a size parameter that is not None
IntOf(size) == size[1]

\* cli.main: --size is required for size mode (`not args.size`)
cli_rejects(m, size) == m = "size" /\ (size = None \/ IntOf(size) = 0)

\* gui: "Please enter a valid size greater than 0"
gui_rejects(m, size) == m = "size" /\ IntOf(size) <= 0

\* cli.main: the checks that end in ap.error
ap_error ==
    \/ ~outlook_available
    \/ cli_rejects(mode, max_size_bytes)
    \/ mode # "size" /\ stream_size_mode

\* the caller's own checks, in front of its call of split_pst
Invoke ==
    /\ pc = "entry"
    /\ IF \/ caller = "cli" /\ ap_error
          \/ caller = "gui" /\ (~outlook_available \/ gui_rejects(mode, max_size_bytes))
       THEN /\ result' = [kind |-> "rejected", by |-> caller]
            /\ pc' = "done"
       ELSE /\ pc' = "call"
            /\ UNCHANGED result
    /\ UNCHANGED <<inputVars, exported, items, cancel, turbo_mode, total_items,
                   total_bytes, groups, group_names, gi, created_files, errors,
                   cumulative_processed, progress, attached, batch_size, batchVars,
                   attempted, succeeded>>

\* split_pst, parameter validation:
\* mode == "size" and (not max_size_bytes or max_size_bytes <= 0)
Validate ==
    /\ pc = "call"
    /\ IF mode = "size"
          /\ (max_size_bytes = None \/ IntOf(max_size_bytes) = 0
                 \/ IntOf(max_size_bytes) <= 0)
       THEN /\ result' = [kind |-> "raised", error |-> "ValueError"]
            /\ pc' = "done"
       ELSE /\ pc' = "health"
            /\ UNCHANGED result
    /\ UNCHANGED <<inputVars, exported, items, cancel, turbo_mode, total_items, total_bytes,
                   groups, group_names, gi, created_files, errors,
                   cumulative_processed, progress, attached, batch_size, batchVars,
                   attempted, succeeded>>

\* HealthCheck with a slip: the source's state is reported, turbo mode is kept
HealthCheck_KeepsTurbo ==
    /\ pc = "health"
    /\ pc' = "session"
    /\ UNCHANGED <<inputVars, exported, items, cancel, turbo_mode, total_items, total_bytes,
                   groups, group_names, gi, created_files, errors, cumulative_processed,
                   progress, attached, batch_size, batchVars, attempted, succeeded,
                   result>>

\* split_pst, space analysis and check_pst_health: a source that is CRITICAL,
\* or whose analysis fails, is not healthy and turbo mode is switched off
HealthCheck ==
    /\ pc = "health"
    /\ turbo_mode' = IF risk = "CRITICAL" \/ fault.at = "health" THEN FALSE
                     ELSE turbo_mode
    /\ pc' = "session"
    /\ UNCHANGED <<inputVars, exported, items, cancel, total_items, total_bytes, groups,
                   group_names, gi, created_files, errors, cumulative_processed,
                   progress, attached, batch_size, batchVars, attempted, succeeded,
                   result>>

\* split_pst: the outer except clause
RunFails(cause) ==
    /\ errors' = Append(errors, [what |-> "Split operation failed", cause |-> cause])
    /\ pc' = "finally"

\* split_pst: the session and the processor are created, the source is attached
OpenSession ==
    /\ pc = "session"
    /\ IF fault.at = "session"
       THEN /\ RunFails("session")
            /\ UNCHANGED <<batch_size, attached>>
       ELSE IF fault.at = "attach"
       THEN /\ batch_size' = IF turbo_mode THEN TurboBatchSize ELSE StandardBatchSize
            /\ RunFails("attach")
            /\ UNCHANGED attached
       ELSE /\ batch_size' = IF turbo_mode THEN TurboBatchSize ELSE StandardBatchSize
            /\ attached' = attached \cup {SourcePath}
            /\ pc' = "enumerate"
            /\ UNCHANGED errors
    /\ UNCHANGED <<inputVars, exported, items, cancel, turbo_mode, total_items, total_bytes,
                   groups, group_names, gi, created_files,
                   cumulative_processed, progress, batchVars, attempted, succeeded,
                   result>>

\* iter_mail_items raises PSTSizeExceededException on pass number n of the run
CapacityExceeded(n) == fault.at = "capacity" /\ n <= fault.bucket

\* the recovery pass with a slip: a capacity error is answered by a further
\* pass
EnumerateRetry_Again ==
    /\ pc = "enumerate_retry"
    /\ enumerations' = enumerations + 1
    /\ IF CapacityExceeded(enumerations + 1)
       THEN UNCHANGED <<items, pc, errors>>
       ELSE /\ items' = IF cancel THEN <<>> ELSE store_items
            /\ pc' = "enumerated"
            /\ UNCHANGED errors
    /\ UNCHANGED <<givenVars, written, exported, cancel, turbo_mode, total_items, total_bytes, groups,
                   group_names, gi, created_files, cumulative_processed,
                   progress, attached, batch_size, batchVars, attempted, succeeded,
                   result>>

\* split_pst: the recovery pass after a PSTSizeExceededException of the
\* enumeration: iter_mail_items is called once more, and any exception of
\* that pass is raised on to the outer except clause
EnumerateRetry ==
    /\ pc = "enumerate_retry"
    /\ enumerations' = enumerations + 1
    /\ IF CapacityExceeded(enumerations + 1)
       THEN /\ RunFails("capacity")
            /\ UNCHANGED items
       ELSE /\ items' = IF cancel THEN <<>> ELSE store_items
            /\ pc' = "enumerated"
            /\ UNCHANGED errors
    /\ UNCHANGED <<givenVars, written, exported, cancel, turbo_mode, total_items, total_bytes, groups,
                   group_names, gi, created_files, cumulative_processed,
                   progress, attached, batch_size, batchVars, attempted, succeeded,
                   result>>

\* split_pst: list(outlook.iter_mail_items(...)); the iterator yields nothing
\* once the cancel event is set.  A PSTSizeExceededException is answered by
\* one more attempt; any other exception ends the run.
Enumerate ==
    /\ pc = "enumerate"
    /\ enumerations' = enumerations + 1
    /\ IF fault.at = "enumerate"
       THEN /\ RunFails("enumerate")
            /\ UNCHANGED items
       ELSE IF CapacityExceeded(enumerations + 1)
       THEN /\ pc' = "enumerate_retry"
            /\ UNCHANGED <<items, errors>>
       ELSE /\ items' = IF cancel THEN <<>> ELSE store_items
            /\ pc' = "enumerated"
            /\ UNCHANGED errors
    /\ UNCHANGED <<givenVars, written, exported, cancel, turbo_mode, total_items, total_bytes, groups,
                   group_names, gi, created_files, cumulative_processed,
                   progress, attached, batch_size, batchVars, attempted, succeeded,
                   result>>

FiltersSupplied ==
    include_folders # {} \/ exclude_folders # {} \/ sender_domains # {}
        \/ date_range # None

\* the buckets and their names for the mode; <<>> for a mode split_pst does
\* not know
GroupsForMode(its) ==
    CASE mode = "size" ->
            LET g == group_items_by_size(its, IntOf(max_size_bytes))
            IN [groups |-> g, names |-> [i \in 1..Len(g) |-> PartName(i - 1)]]
      [] mode = "year" ->
            LET d == group_items_by_year(its)
            IN [groups |-> DictValues(d), names |-> DictKeys(d)]
      [] mode = "month" ->
            LET d == group_items_by_month(its)
            IN [groups |-> DictValues(d), names |-> DictKeys(d)]
      [] OTHER -> <<>>

\* FilterAndGroup with a slip: the cancel event is not looked at after the
\* enumeration
FilterAndGroup_IgnoresCancel ==
    /\ pc = "enumerated"
    /\ LET its == IF FiltersSupplied
                  THEN _apply_filters(items, include_folders, exclude_folders,
                                      sender_domains, date_range)
                  ELSE items
           g == GroupsForMode(its)
       IN IF Len(its) = 0
          THEN /\ items' = its
               /\ total_items' = 0
               /\ result' = SplitResult(<<>>, 0, 0, ErrorsNone)
               /\ pc' = "finally"
               /\ UNCHANGED <<groups, group_names, gi, errors>>
          ELSE IF g = <<>>
          THEN /\ items' = its
               /\ total_items' = Len(its)
               /\ errors' = Append(errors, [what |-> "Split operation failed",
                                            cause |-> "Unknown mode"])
               /\ pc' = "finally"
               /\ UNCHANGED <<groups, group_names, gi, result>>
          ELSE /\ items' = its
               /\ total_items' = Len(its)
               /\ groups' = g.groups
               /\ group_names' = g.names
               /\ gi' = 1
               /\ pc' = "loop"
               /\ UNCHANGED <<errors, result>>
    /\ UNCHANGED <<inputVars, exported, cancel, turbo_mode, total_bytes, created_files,
                   cumulative_processed, progress, attached, batch_size, batchVars,
                   attempted, succeeded>>

\* split_pst from the cancellation check after enumeration to the start of
\* the bucket loop: filters, item count, grouping
FilterAndGroup ==
    /\ pc = "enumerated"
    /\ LET its == IF FiltersSupplied
                  THEN _apply_filters(items, include_folders, exclude_folders,
                                      sender_domains, date_range)
                  ELSE items
           g == GroupsForMode(its)
       IN IF cancel
          THEN /\ result' = SplitResult(created_files, 0, 0,
                                        ErrorsList(<<[what |-> "Operation cancelled"]>>))
               /\ pc' = "finally"
               /\ UNCHANGED <<items, total_items, groups, group_names, gi, errors>>
          ELSE IF Len(its) = 0
          THEN /\ items' = its
               /\ total_items' = 0
               /\ result' = SplitResult(<<>>, 0, 0, ErrorsNone)
               /\ pc' = "finally"
               /\ UNCHANGED <<groups, group_names, gi, errors>>
          ELSE IF g = <<>>
          THEN /\ items' = its
               /\ total_items' = Len(its)
               /\ errors' = Append(errors, [what |-> "Split operation failed",
                                            cause |-> "Unknown mode"])
               /\ pc' = "finally"
               /\ UNCHANGED <<groups, group_names, gi, result>>
          ELSE /\ items' = its
               /\ total_items' = Len(its)
               /\ groups' = g.groups
               /\ group_names' = g.names
               /\ gi' = 1
               /\ pc' = "loop"
               /\ UNCHANGED <<errors, result>>
    /\ UNCHANGED <<inputVars, exported, cancel, turbo_mode, total_bytes, created_files,
                   cumulative_processed, progress, attached, batch_size, batchVars,
                   attempted, succeeded>>

\* LeaveLoop with a slip: the loop head does not look at the cancel event
LeaveLoop_OnlyAtEnd ==
    /\ pc = "loop"
    /\ gi > Len(groups)
    /\ pc' = "finally"
    /\ UNCHANGED <<inputVars, exported, items, cancel, turbo_mode, total_items, total_bytes,
                   groups, group_names, gi, created_files, errors,
                   cumulative_processed, progress, attached, batch_size, batchVars,
                   attempted, succeeded, result>>

\* split_pst: the bucket loop ends, or is left because cancel is set
LeaveLoop ==
    /\ pc = "loop"
    /\ gi > Len(groups) \/ cancel
    /\ pc' = "finally"
    /\ UNCHANGED <<inputVars, exported, items, cancel, turbo_mode, total_items, total_bytes,
                   groups, group_names, gi, created_files, errors,
                   cumulative_processed, progress, attached, batch_size, batchVars,
                   attempted, succeeded, result>>

\* GroupFails with a slip: the failure of a bucket ends the bucket loop
GroupFails_Fatal(cause) ==
    /\ errors' = Append(errors, [what |-> "Failed to process group",
                                 name |-> group_names[gi], cause |-> cause])
    /\ gi' = gi
    /\ pc' = "finally"

\* split_pst: the except clause of the bucket loop
GroupFails(cause) ==
    /\ errors' = Append(errors, [what |-> "Failed to process group",
                                 name |-> group_names[gi], cause |-> cause])
    /\ gi' = gi + 1
    /\ pc' = "loop"

\* StartGroup with a slip: dry_run is not looked at, the destination of a
\* non-empty bucket is always created and its items are transferred
StartGroup_IgnoresDryRun ==
    /\ pc = "loop"
    /\ gi <= Len(groups) /\ ~cancel
    /\ CurGroup # <<>>
    /\ attached' = attached \cup {TargetPath(group_names[gi])}
    /\ results' = NewResults
    /\ batch_start' = 0
    /\ item_pos' = 0
    /\ processed_count' = 0
    /\ batch_success' = 0
    /\ pc' = "batch"
    /\ UNCHANGED <<inputVars, exported, items, cancel, turbo_mode, total_items, groups,
                   group_names, created_files, batch_size, attempted, succeeded,
                   result, gi, cumulative_processed, progress, total_bytes, errors>>

\* split_pst: a bucket is started.  A dry run counts the bucket's items and
\* goes on; otherwise the destination is created and copy_items_optimized
\* is entered.  A destination that cannot be created ends the bucket.
StartGroup ==
    /\ pc = "loop"
    /\ gi <= Len(groups) /\ ~cancel
    /\ IF CurGroup = <<>>
       THEN /\ gi' = gi + 1
            /\ UNCHANGED <<pc, cumulative_processed, progress, total_bytes, attached,
                           batchVars, errors>>
       ELSE IF dry_run
       THEN /\ cumulative_processed' = cumulative_processed + Len(CurGroup)
            /\ progress' = cumulative_processed'
            /\ total_bytes' = total_bytes + SumSizes(CurGroup)
            /\ gi' = gi + 1
            /\ UNCHANGED <<pc, attached, batchVars, errors>>
       ELSE IF fault.at = "create" /\ fault.bucket = gi
       THEN /\ GroupFails("create")
            /\ UNCHANGED <<cumulative_processed, progress, total_bytes, attached,
                           batchVars>>
       ELSE /\ attached' = attached \cup {TargetPath(group_names[gi])}
            /\ results' = NewResults
            /\ batch_start' = 0
            /\ item_pos' = 0
            /\ processed_count' = 0
            /\ batch_success' = 0
            /\ pc' = "batch"
            /\ UNCHANGED <<gi, cumulative_processed, progress, total_bytes, errors>>
    /\ UNCHANGED <<inputVars, exported, items, cancel, turbo_mode, total_items, groups,
                   group_names, created_files, batch_size, attempted,
                   succeeded, result>>

\* copy_items_optimized: head of the batch loop
BatchHead ==
    /\ pc = "batch"
    /\ IF batch_start >= Len(CurGroup)
       THEN /\ pc' = "metrics"
            /\ UNCHANGED <<results, progress, batch_success, item_pos>>
       ELSE IF cancel
       THEN /\ results' = [results EXCEPT !.cancelled = TRUE]
            /\ pc' = "metrics"
            /\ UNCHANGED <<progress, batch_success, item_pos>>
       ELSE /\ progress' = copy_progress_callback(
                               ProgressMessage(processed_count, Len(CurGroup)),
                               cumulative_processed)
            /\ batch_success' = 0
            /\ item_pos' = batch_start
            /\ pc' = "item"
            /\ UNCHANGED results
    /\ UNCHANGED <<inputVars, exported, items, cancel, turbo_mode, total_items, total_bytes,
                   groups, group_names, gi, created_files, errors,
                   cumulative_processed, attached, batch_size, batch_start,
                   processed_count, attempted, succeeded, result>>

\* copy_items_optimized: one pass of the item loop for the item at item_pos:
\* the transfer, the bookkeeping and the progress report
RecordTransfer ==
    LET item == CurGroup[item_pos + 1]
        out == outcome[item.entry_id.key]
        success == IF performance_mode THEN _optimized_item_transfer(out)
                   ELSE out # "raised"
        failed == ~performance_mode /\ out = "raised"
    IN /\ results' =
            IF success
            THEN [results EXCEPT !.success_count = @ + 1]
            ELSE IF failed
            THEN [results EXCEPT !.failed_items =
                     Append(@, [item_id |-> Truncate(item.entry_id, IdKeep),
                                error |-> "copy failed"])]
            ELSE results
       /\ batch_success' = IF success THEN batch_success + 1 ELSE batch_success
       /\ processed_count' = processed_count + 1
       /\ item_pos' = item_pos + 1
       /\ progress' = IF processed_count' % ProgressEvery = 0
                      THEN copy_progress_callback(
                               ProgressMessage(processed_count', Len(CurGroup)),
                               cumulative_processed)
                      ELSE progress
       /\ attempted' = Append(attempted, item.entry_id.key)
       /\ succeeded' = IF success THEN succeeded \cup {item.entry_id.key}
                       ELSE succeeded
       /\ UNCHANGED <<pc, gi, errors>>

\* TransferItem with a slip: a raising copy_item_to_store is not caught inside
\* copy_items_optimized and ends the bucket
TransferItem_Unprotected ==
    /\ pc = "item"
    /\ item_pos < BatchEnd
    /\ ~cancel
    /\ IF outcome[CurGroup[item_pos + 1].entry_id.key] = "raised"
       THEN /\ GroupFails("copy failed")
            /\ UNCHANGED <<batchVars, progress, attempted, succeeded>>
       ELSE RecordTransfer
    /\ UNCHANGED <<inputVars, exported, items, cancel, turbo_mode, total_items, total_bytes,
                   groups, group_names, created_files, cumulative_processed,
                   attached, batch_size, batch_start, result>>

\* copy_items_optimized: the next item of the batch is transferred
TransferItem ==
    /\ pc = "item"
    /\ item_pos < BatchEnd
    /\ ~cancel
    /\ RecordTransfer
    /\ UNCHANGED <<inputVars, exported, items, cancel, turbo_mode, total_items, total_bytes,
                   groups, group_names, created_files, cumulative_processed,
                   attached, batch_size, batch_start, result>>

\* copy_items_optimized: cancel is seen in front of an item
CancelInBatch ==
    /\ pc = "item"
    /\ item_pos < BatchEnd
    /\ cancel
    /\ results' = [results EXCEPT !.cancelled = TRUE]
    /\ pc' = "metrics"
    /\ UNCHANGED <<inputVars, exported, items, cancel, turbo_mode, total_items, total_bytes,
                   groups, group_names, gi, created_files, errors,
                   cumulative_processed, progress, attached, batch_size, batch_start,
                   item_pos, processed_count, batch_success, attempted, succeeded,
                   result>>

\* copy_items_optimized: the batch is complete
BatchComplete ==
    /\ pc = "item"
    /\ item_pos >= BatchEnd
    /\ results' = [results EXCEPT !.batches_processed = @ + 1]
    /\ batch_start' = batch_start + batch_size
    /\ pc' = "batch"
    /\ UNCHANGED <<inputVars, exported, items, cancel, turbo_mode, total_items, total_bytes,
                   groups, group_names, gi, created_files, errors,
                   cumulative_processed, progress, attached, batch_size, item_pos,
                   processed_count, batch_success, attempted, succeeded, result>>

\* copy_items_optimized: the final metrics.  total_items / (total_time_ms /
\* 1000) raises ZeroDivisionError when no time was measured; the exception
\* reaches the except clause of the bucket loop.
Metrics ==
    /\ pc = "metrics"
    /\ IF gi \in zero_time
       THEN GroupFails("float division by zero")
       ELSE /\ pc' = "tail"
            /\ UNCHANGED <<gi, errors>>
    /\ UNCHANGED <<inputVars, exported, items, cancel, turbo_mode, total_items, total_bytes,
                   groups, group_names, created_files, cumulative_processed,
                   progress, attached, batch_size, batchVars, attempted, succeeded,
                   result>>

\* split_pst: after copy_items_optimized has returned
GroupTail ==
    /\ pc = "tail"
    /\ IF results.cancelled
       THEN /\ pc' = "finally"
            /\ UNCHANGED <<cumulative_processed, progress, total_bytes,
                           created_files, gi>>
       ELSE /\ cumulative_processed' = cumulative_processed + results.success_count
            /\ progress' = cumulative_processed'
            /\ total_bytes' = total_bytes + SumSizes(CurGroup)
            /\ created_files' = Append(created_files, TargetPath(group_names[gi]))
            /\ gi' = gi + 1
            /\ pc' = "loop"
    /\ UNCHANGED <<inputVars, exported, items, cancel, turbo_mode, total_items, groups,
                   group_names, errors, attached, batch_size, batchVars, attempted,
                   succeeded, result>>

\* split_pst: the finally clause (the source and the created files are
\* detached, errors of a detach are ignored); a return statement reached
\* inside the try block returns now
Finally ==
    /\ pc = "finally"
    /\ attached' = IF fault.at = "detach" THEN attached
                   ELSE attached \ ({SourcePath} \cup Range(created_files))
    /\ pc' = IF result # NoResult THEN "done" ELSE "export"
    /\ UNCHANGED <<inputVars, exported, items, cancel, turbo_mode, total_items, total_bytes,
                   groups, group_names, gi, created_files, errors,
                   cumulative_processed, progress, batch_size, batchVars, attempted,
                   succeeded, result>>

Str_session_summary == <<"s","e","s","s","i","o","n","_","s","u","m","m","a","r","y",".","j","s","o","n">>
Str_groups_analysis == <<"g","r","o","u","p","s","_","a","n","a","l","y","s","i","s",".","c","s","v">>
Str_performance_summary == <<"p","e","r","f","o","r","m","a","n","c","e","_","s","u","m","m","a","r","y",".","t","x","t">>
Str_README == <<"R","E","A","D","M","E",".","t","x","t">>
Str_item_processing_sample == <<"i","t","e","m","_","p","r","o","c","e","s","s","i","n","g","_","s","a","m","p","l","e",".","c","s","v">>
Str_summary_csv == <<"s","u","m","m","a","r","y",".","c","s","v">>

\* the directory export_analysis_report creates under output_dir
AnalysisDir == <<"P","S","T","_","A","n","a","l","y","s","i","s","/">>

\* PSTSplitterLogExporter.export_analysis_report: the files it writes, all in
\* its own directory.  The item log is written when an item was handed to the
\* transfer; the error file is written for entries of log_error, which the
\* batcher's empty failed_items never lead to.
export_analysis_report ==
    {AnalysisDir \o f : f \in {Str_session_summary, Str_groups_analysis,
                                Str_performance_summary, Str_README}}
        \cup (IF attempted # <<>> THEN {AnalysisDir \o Str_item_processing_sample} ELSE {})

\* ExportReport with a slip: a failure of the export is not caught
ExportReport_Unprotected ==
    /\ pc = "export"
    /\ exported' = (fault.at # "export")
    /\ result' = IF fault.at = "export" THEN [kind |-> "raised", error |-> "export"]
                 ELSE SplitResult(created_files, total_items, total_bytes,
                                  IF errors # <<>> THEN ErrorsList(errors)
                                  ELSE ErrorsNone)
    /\ written' = IF fault.at = "export" THEN written
                   ELSE written \cup export_analysis_report
    /\ pc' = "done"
    /\ UNCHANGED <<givenVars, enumerations, items, cancel, turbo_mode, total_items,
                   total_bytes, groups, group_names, gi, created_files, errors,
                   cumulative_processed, progress, attached, batch_size, batchVars,
                   attempted, succeeded>>

\* split_pst: the analysis report is exported (a failure is logged only) and
\* the result is returned
ExportReport ==
    /\ pc = "export"
    /\ exported' = (fault.at # "export")
    /\ result' = SplitResult(created_files, total_items, total_bytes,
                             errors_or_None(errors))
    /\ written' = IF fault.at = "export" THEN written
                   ELSE written \cup export_analysis_report
    /\ pc' = "done"
    /\ UNCHANGED <<givenVars, enumerations, items, cancel, turbo_mode, total_items,
                   total_bytes, groups, group_names, gi, created_files, errors,
                   cumulative_processed, progress, attached, batch_size, batchVars,
                   attempted, succeeded>>

\* cli.main ends: ap.error exits with status 2, an exception that leaves
\* split_pst ends the interpreter with status 1, and after split_pst has
\* returned main returns 0
MainReturns ==
    /\ pc = "done" /\ caller = "cli"
    /\ exit_status = NotExited
    /\ exit_status' = CASE result.kind = "rejected" -> 2
                        [] result.kind = "raised" -> 1
                        [] OTHER -> 0
    /\ UNCHANGED <<groupVars, filterVars, splitVars, outlook_available,
                   stream_size_mode, summary_csv, worker, threads, gui_log,
                   fetchers, dialog_open>>

NextRun ==
    \/ SetCancel
    \/ Invoke
    \/ Validate
    \/ HealthCheck
    \/ OpenSession
    \/ Enumerate
    \/ EnumerateRetry
    \/ FilterAndGroup
    \/ LeaveLoop
    \/ StartGroup
    \/ BatchHead
    \/ TransferItem
    \/ CancelInBatch
    \/ BatchComplete
    \/ Metrics
    \/ GroupTail
    \/ Finally
    \/ ExportReport
    \/ MainReturns

(***************************************************************************)
(* Specification SpecRun: split_pst on bounded sources                     *)
(***************************************************************************)
RunDate == <<2021, 3, 1, 0>>

\* the source's items: one byte each, every second one undated, entry ids
\* longer and shorter than IdKeep
RunItems(n) ==
    [k \in 1..n |->
        MailItemInfo(k, IF k % 2 = 1 THEN 140 ELSE 48, 1,
                     IF k % 2 = 1 THEN RunDate ELSE None, <<>>, <<>>)]

RunModes == {"size", "year", "folder"}

\* the size limit of the large runs: the first bucket needs a second batch
LargeLimit == StandardBatchSize + 1

\* the steps of a run that can fail
FaultPoints == {"health", "session", "attach", "enumerate", "detach", "export"}

\* at most one step of a run fails: none, one of FaultPoints, or the creation
\* of the destination of one bucket
Faults ==
    {NoFault} \cup {[at |-> f, bucket |-> 0] : f \in FaultPoints}
        \cup {[at |-> "create", bucket |-> b] : b \in 1..MaxFaultBucket}
        \cup {[at |-> "capacity", bucket |-> n] : n \in 1..MaxCapacityErrors}

\* small sources: every assignment of transfer outcomes, every mode, dry and
\* real runs, every fault
InitSmallRun ==
    /\ \E n \in 0..MaxSmallRun :
          /\ store_items = RunItems(n)
          /\ outcome \in [1..n -> TransferOutcomes]
    /\ mode \in RunModes
    /\ max_size_bytes \in {<<1>>, <<2>>}
    /\ caller = "api"
    /\ fault \in Faults
    /\ dry_run \in BOOLEAN
    /\ turbo_mode = FALSE
    /\ risk = "LOW"
    /\ zero_time \in SUBSET (1..MaxZeroTimeGroup)

\* size parameters split_pst refuses in size mode
BadSizes == {None, <<0>>, <<-1>>}

\* small sources and a missing, zero or negative size, from each caller: the
\* command line and the GUI hand over None outside size mode, and the GUI
\* always has a number in size mode
InitBadSizeRun ==
    /\ \E n \in 0..MaxSmallRun :
          /\ store_items = RunItems(n)
          /\ outcome = [k \in 1..n |-> "copied"]
    /\ mode \in RunModes
    /\ max_size_bytes \in BadSizes
    /\ caller \in {"api", "cli", "gui"}
    /\ caller = "gui" /\ mode = "size" => max_size_bytes # None
    /\ caller # "api" /\ mode # "size" => max_size_bytes = None
    /\ fault = NoFault
    /\ dry_run = FALSE
    /\ turbo_mode = FALSE
    /\ risk = "LOW"
    /\ zero_time = {}

\* sources of a full standard batch and more: the outcome of a transfer
\* follows a pattern of period FaultPeriod
InitLargeRun ==
    /\ \E n \in StandardBatchSize..(StandardBatchSize + MaxOverBatch) :
          /\ store_items = RunItems(n)
          /\ \E pat \in [0..(FaultPeriod - 1) -> TransferOutcomes] :
                outcome = [k \in 1..n |-> pat[k % FaultPeriod]]
    /\ mode = "size"
    /\ max_size_bytes = <<LargeLimit>>
    /\ caller = "api"
    /\ fault = NoFault
    /\ dry_run = FALSE
    /\ \E tr \in {<<FALSE, "LOW">>, <<TRUE, "LOW">>, <<TRUE, "CRITICAL">>} :
          turbo_mode = tr[1] /\ risk = tr[2]
    /\ zero_time = {}

\* the received times of the sources split by year
YearRunDates == {<<2022, 7, 15, 12>>, None, RunDate}

\* sources split by year: two years and undated items in every order
InitYearRun ==
    /\ \E ds \in SeqsUpTo(YearRunDates, MaxYearRun) :
          /\ store_items = [k \in 1..Len(ds) |-> MailItemInfo(k, 48, 1, ds[k], <<>>, <<>>)]
          /\ outcome = [k \in 1..Len(ds) |-> "copied"]
    /\ mode = "year"
    /\ max_size_bytes = None
    /\ caller = "api"
    /\ fault = NoFault
    /\ dry_run = FALSE
    /\ turbo_mode = FALSE
    /\ risk = "LOW"
    /\ zero_time = {}

\* the sizes --size can stand for, and its absence
CliSizes == {None, <<0>>, <<-1>>, <<1>>}

\* the failures of the runs started from the command line
CliFaults == {NoFault, [at |-> "enumerate", bucket |-> 0], [at |-> "create", bucket |-> 1]}

\* runs started from the command line: every mode, with and without --size
\* and --stream, with and without the mail system
InitCliRun ==
    /\ \E n \in 1..MaxSmallRun :
          /\ store_items = RunItems(n)
          /\ outcome = [k \in 1..n |-> "copied"]
    /\ caller = "cli"
    /\ mode \in RunModes
    /\ max_size_bytes \in CliSizes
    /\ mode # "size" => max_size_bytes = None
    /\ outlook_available \in BOOLEAN
    /\ stream_size_mode \in BOOLEAN
    /\ summary_csv \in {None, Str_summary_csv}
    /\ fault \in CliFaults
    /\ dry_run = FALSE
    /\ turbo_mode = FALSE
    /\ risk = "LOW"
    /\ zero_time = {}
    /\ exit_status = NotExited
    /\ GuiIdle

\* the state of a run in front of the caller's first step
RunStart ==
    /\ pc = "entry"
    /\ cancel = FALSE
    /\ exported = FALSE
    /\ items = <<>>
    /\ total_items = 0 /\ total_bytes = 0 /\ groups = <<>> /\ group_names = <<>>
    /\ gi = 0 /\ created_files = <<>> /\ errors = <<>>
    /\ cumulative_processed = 0 /\ progress = -1 /\ attached = {}
    /\ batch_size = 0 /\ batch_start = 0 /\ item_pos = 0 /\ processed_count = 0
    /\ batch_success = 0 /\ results = NewResults /\ attempted = <<>>
    /\ succeeded = {} /\ result = NoResult
    /\ enumerations = 0 /\ written = {}
    /\ CallsIdle
    /\ phase = "input"
    /\ max_bytes = 0
    /\ buckets = <<>>
    /\ keys = <<>>
    /\ FilterIdle

InitRun ==
    /\ \/ (InitSmallRun \/ InitBadSizeRun \/ InitLargeRun \/ InitYearRun) /\ AppIdle
       \/ InitCliRun
    /\ RunStart

SpecRun == InitRun /\ [][NextRun]_vars

(***************************************************************************)
(* Claims on the transfer batcher (SpecRun)                                *)
(***************************************************************************)
KeysOf(its) == [i \in 1..Len(its) |-> its[i].entry_id.key]

\* copy_items_optimized is running, or has just returned, for bucket gi
InBatcher == pc \in {"batch", "item", "metrics", "tail"}

\* the destination of bucket j cannot be created
CreateFails(j) == fault.at = "create" /\ fault.bucket = j

\* the items of the buckets before bucket g whose destination was created
ItemsBefore(g) ==
    Flatten([j \in 1..(g - 1) |-> IF CreateFails(j) THEN <<>> ELSE groups[j]])

\* the positions among the first n items of the current bucket whose transfer
\* does not raise
GoodPositions(n) ==
    {i \in 1..n : outcome[CurGroup[i].entry_id.key] # "raised"}

\* C9: error isolation in the transfer batcher.  Whether an item is attempted
\* depends on its position and on cancellation only, and whether it is counted
\* as a success on its own transfer only, never on the transfer of another
\* item: while the batcher works on a bucket the transfers attempted so far
\* are exactly those of all earlier buckets and of the first processed_count
\* items of the bucket, in order and once each; every attempted item whose own
\* transfer does not raise is a success and is counted; the batcher leaves a
\* bucket only at its end or on cancellation; and a run that is not cancelled
\* attempts every item of every bucket whose destination was created.
C9_ErrorIsolation ==
    /\ succeeded = {k \in Range(attempted) : outcome[k] # "raised"}
    /\ InBatcher =>
          /\ attempted = KeysOf(ItemsBefore(gi))
                            \o KeysOf(SubSeq(CurGroup, 1, processed_count))
          /\ results.success_count = Cardinality(GoodPositions(processed_count))
          /\ pc \in {"metrics", "tail"} =>
                results.cancelled \/ processed_count = Len(CurGroup)
    /\ (pc = "done" /\ ~cancel /\ ~dry_run /\ groups # <<>>) =>
          attempted = KeysOf(ItemsBefore(Len(groups) + 1))

\* C9 witness: a run that was not cancelled has ended; the first item of the
\* first bucket raised in the first batch; the bucket needed a second batch
\* and a second bucket followed; every item of the source was attempted and
\* the last one is a success
C9_Witness ==
    /\ pc = "done" /\ ~cancel
    /\ Len(groups) = 2
    /\ batch_size = StandardBatchSize
    /\ Len(groups[1]) > batch_size
    /\ outcome[groups[1][1].entry_id.key] = "raised"
    /\ Len(attempted) = Len(store_items)
    /\ groups[2][Len(groups[2])].entry_id.key \in succeeded

\* C10: after a call of copy_items_optimized that was not cancelled, every
\* item whose transfer raised has exactly one entry in failed_items carrying
\* its identifier cut to IdKeep characters, and success_count +
\* len(failed_items) is the number of items handed in
C10_FailedItemsComplete ==
    (pc = "tail" /\ ~results.cancelled) =>
        /\ results.success_count + Len(results.failed_items) = Len(CurGroup)
        /\ \A i \in 1..Len(CurGroup) :
              outcome[CurGroup[i].entry_id.key] = "raised" =>
                 Cardinality({j \in 1..Len(results.failed_items) :
                     results.failed_items[j].item_id
                         = Truncate(CurGroup[i].entry_id, IdKeep)}) = 1

(***************************************************************************)
(* Claims on cancellation (SpecRun)                                        *)
(***************************************************************************)
\* copy_items_optimized stands in front of a check of the cancel event with
\* items of the bucket still to transfer
AtCancelCheck ==
    \/ pc = "batch" /\ batch_start < Len(CurGroup)
    \/ pc = "item" /\ item_pos < BatchEnd

\* C11: cancellation of a transfer.  The first check that observes the cancel
\* event starts no transfer and marks the result cancelled, and the call that
\* observed the event returns that result, marked cancelled, with a
\* success_count no larger than the number of items transferred.
C11_CancelledTransfer ==
    [][ /\ (AtCancelCheck /\ cancel) =>
              /\ attempted' = attempted
              /\ results'.cancelled
        /\ (pc = "metrics" /\ results.cancelled) =>
              /\ pc' = "tail"
              /\ results'.cancelled
              /\ results'.success_count <= processed_count ]_vars

\* split_pst has returned a SplitResult
Returned == pc = "done" /\ result.kind = "SplitResult"

\* no step of the run failed for a reason other than cancellation
NoOtherFailure == fault = NoFault /\ zero_time = {} /\ mode # "folder"

\* no step of the run was made to fail
NoOtherFailureThanMode == fault = NoFault /\ zero_time = {}

\* C12: cancellation is not a failure.  The returned errors never hold an
\* entry for the cancellation itself, and a cancelled run without any other
\* failure returns errors = None.
C12_CancelNotAnError ==
    Returned =>
        /\ \A i \in 1..Len(result.errors.list) :
              result.errors.list[i].what # "Operation cancelled"
        /\ (cancel /\ NoOtherFailure) => result.errors = ErrorsNone

\* the bucket loop was left by a break: cancellation was observed at the head
\* of bucket gi or inside its transfer
LoopBroken == groups # <<>> /\ gi <= Len(groups)

\* bucket j was processed completely: its destination was created and its
\* transfer returned
Completed(j) == ~CreateFails(j) /\ j \notin zero_time

\* the only mark of a cancellation a SplitResult can carry: it has no field
\* for it, and the one mark split_pst ever writes is an errors entry
ReportsCancelled(res) ==
    \E i \in 1..Len(res.errors.list) : res.errors.list[i].what = "Operation cancelled"

\* C13: result of a run cancelled mid-way.  When the run is cancelled after
\* buckets 1..k were processed completely and before bucket k+1 finishes, the
\* result lists exactly the destinations of buckets 1..k, in bucket order,
\* and reports the run as cancelled.
C13_CancelledMidRun ==
    (Returned /\ ~dry_run /\ LoopBroken /\ \A j \in 1..(gi - 1) : Completed(j)) =>
        /\ result.created_files = [j \in 1..(gi - 1) |-> TargetPath(group_names[j])]
        /\ ReportsCancelled(result)

(***************************************************************************)
(* Claims on failures (SpecRun)                                            *)
(***************************************************************************)
\* the parameters pass the validation of split_pst
ValidConfig ==
    ~(mode = "size" /\ (max_size_bytes = None \/ IntOf(max_size_bytes) <= 0))

\* the errors of the returned result hold a run-level entry for cause c
HasRunError(c) ==
    \E i \in 1..Len(result.errors.list) :
        /\ result.errors.list[i].what = "Split operation failed"
        /\ result.errors.list[i].cause = c

BucketFails(j) == ~dry_run /\ (CreateFails(j) \/ j \in zero_time)
BucketSucceeds(j) == ~dry_run /\ ~BucketFails(j)

IsGroupError(e) == e.what = "Failed to process group"

\* the bucket loop is running or has been left
InBucketLoop == groups # <<>> /\ gi >= 1

\* C15: bucket failures are non-fatal.  At every point of the bucket loop the
\* errors hold exactly one entry for each failed bucket passed so far, naming
\* it, in bucket order; created_files holds exactly the destinations of the
\* other buckets passed so far, in order (a failed bucket is abandoned, the
\* later ones are still processed); and a run that is not cancelled ends only
\* after the last bucket.
C15_BucketFailureNonFatal ==
    InBucketLoop =>
        /\ LET failed == SelectSeq([j \in 1..(gi - 1) |-> j], BucketFails)
               entries == SelectSeq(errors, IsGroupError)
           IN /\ Len(entries) = Len(failed)
              /\ \A i \in 1..Len(failed) : entries[i].name = group_names[failed[i]]
        /\ LET done == SelectSeq([j \in 1..(gi - 1) |-> j], BucketSucceeds)
           IN created_files = [i \in 1..Len(done) |-> TargetPath(group_names[done[i]])]
        /\ (pc \in {"finally", "export", "done"} /\ ~cancel) => gi = Len(groups) + 1

\* C15 witness: in a run that was not cancelled the destination of the first
\* bucket could not be created; the run returned one error and the destination
\* of the second bucket
C15_Witness ==
    /\ Returned /\ ~cancel /\ ~dry_run
    /\ Len(groups) >= 2
    /\ CreateFails(1)
    /\ Len(result.errors.list) = 1
    /\ result.errors.list[1].name = group_names[1]
    /\ result.created_files = <<TargetPath(group_names[2])>>
    /\ Len(attempted) = Len(groups[2])

(***************************************************************************)
(* Claims on dry runs and on the configuration (SpecRun)                   *)
(***************************************************************************)
\* the number of items in the buckets before bucket g
CountBefore(g) == Len(Flatten(SubSeq(groups, 1, g - 1)))

\* C16: dry run.  With dry_run set no destination is ever attached or listed
\* as created, no item is handed to copy_item_to_store, the progress counter
\* stands at the item count of the buckets passed so far, and a run that was
\* not cancelled ends with a last progress report of done = total.
C16_DryRun ==
    dry_run =>
        /\ attached \subseteq {SourcePath}
        /\ attempted = <<>> /\ succeeded = {}
        /\ created_files = <<>>
        /\ ~InBatcher
        /\ Returned => result.created_files = <<>>
        /\ InBucketLoop =>
              /\ cumulative_processed = CountBefore(gi)
              /\ gi > 1 => progress = cumulative_processed
        /\ (Returned /\ InBucketLoop /\ ~cancel) =>
              progress = total_items /\ progress = result.total_items

\* C16 witness: a dry run over two buckets has returned without cancellation,
\* with the progress at the two items of the source and nothing created
C16_Witness ==
    /\ dry_run /\ Returned /\ ~cancel
    /\ Len(groups) = 2
    /\ progress = 2
    /\ result.total_items = 2
    /\ result.created_files = <<>>
    /\ attached = {}

\* the run has not started: no session step was reached, no store was
\* attached, no item was enumerated and no destination was created
NeverStarted ==
    /\ pc \in {"entry", "call", "done"}
    /\ attached = {}
    /\ items = <<>> /\ groups = <<>>
    /\ created_files = <<>>
    /\ attempted = <<>>

\* split_pst refuses a size mode without a positive size before anything else
SplitPstRefuses ==
    ~ValidConfig =>
        /\ NeverStarted
        /\ pc = "done" => result.kind \in {"rejected", "raised"}
        /\ (pc = "done" /\ caller = "api") =>
              result = [kind |-> "raised", error |-> "ValueError"]

\* the command line and the window refuse it themselves, split_pst is not called
CallersReject ==
    (~ValidConfig /\ caller \in {"cli", "gui"}) =>
        /\ pc # "call"
        /\ pc = "done" => result = [kind |-> "rejected", by |-> caller]

\* C17: configuration errors stop the run before it starts.  In size mode
\* with a missing, zero or negative size, split_pst fails with a configuration
\* error before a session is opened, a store attached, an item enumerated or
\* a destination created, and the CLI and the GUI reject the configuration
\* before they call split_pst.
C17_ConfigErrorStopsRun == SplitPstRefuses /\ CallersReject

(***************************************************************************)
(* Claims on the order of the year buckets (SpecRun)                       *)
(***************************************************************************)
\* the name of the bucket an item belongs to in year mode
YearKeyOf(it) ==
    IF it.received = None THEN Unknown_Date ELSE FormatYear(it.received[1])

\* the position in its of the first item whose bucket is named key
FirstAt(key, its) ==
    CHOOSE k \in 1..Len(its) :
        /\ YearKeyOf(its[k]) = key
        /\ \A k2 \in 1..(k - 1) : YearKeyOf(its[k2]) # key

\* names are the bucket names of its, each once, in the order of their first
\* occurrence in its
InFirstOccurrenceOrder(names, its) ==
    /\ {names[j] : j \in 1..Len(names)} = {YearKeyOf(its[k]) : k \in 1..Len(its)}
    /\ \A a, b \in 1..Len(names) :
          a < b => FirstAt(names[a], its) < FirstAt(names[b], its)

\* the position of the bucket whose destination is path
PosOf(path) == CHOOSE j \in 1..Len(group_names) : TargetPath(group_names[j]) = path

\* the place of the item with entry key k in the buckets laid end to end
PlaceOf(k) ==
    CHOOSE i \in 1..Len(Flatten(groups)) : Flatten(groups)[i].entry_id.key = k

\* split_pst takes the buckets in the order of group_names: the destinations
\* created so far are those of buckets before or at gi, in bucket order, and
\* the items are handed to the transfer in the order of the buckets
ProcessedInOrder ==
    /\ \A a \in 1..Len(created_files) :
          /\ \E j \in 1..Len(group_names) : TargetPath(group_names[j]) = created_files[a]
          /\ PosOf(created_files[a]) <= gi
    /\ \A a, b \in 1..Len(created_files) :
          a < b => PosOf(created_files[a]) < PosOf(created_files[b])
    /\ \A a, b \in 1..Len(attempted) :
          a < b => PlaceOf(attempted[a]) < PlaceOf(attempted[b])

\* split_pst has grouped the items by year
GroupedByYear == mode = "year" /\ InBucketLoop

\* C19 as stated: in year mode the buckets are emitted in the order of the
\* first occurrence of each key in the input, the key of the undated items
\* included, and split_pst processes the buckets and creates the destinations
\* in that order.
C19_FirstOccurrenceOrder ==
    GroupedByYear =>
        /\ InFirstOccurrenceOrder(group_names, items)
        /\ ProcessedInOrder

\* C19 amended: the year buckets are emitted in the order of the first
\* occurrence of each year among the dated items (not sorted), the bucket
\* Unknown_Date of the undated items is always emitted last, and split_pst
\* processes the buckets and creates the destinations in that order.
C19_YearsThenUnknown ==
    GroupedByYear =>
        LET IsDated(it) == it.received # None
            dated == SelectSeq(items, IsDated)
            n == Len(group_names)
            has_unknown == Len(dated) < Len(items)
            years == IF has_unknown THEN SubSeq(group_names, 1, n - 1) ELSE group_names
        IN /\ has_unknown => group_names[n] = Unknown_Date
           /\ InFirstOccurrenceOrder(years, dated)
           /\ ProcessedInOrder

\* a run over an undated item, an item of 2022 and an item of 2021 has
\* returned with the destinations 2022, 2021, Unknown_Date in that order
C19_Witness ==
    /\ GroupedByYear /\ Returned
    /\ [k \in 1..Len(items) |-> items[k].received]
          = <<None, <<2022, 7, 15, 12>>, RunDate>>
    /\ result.created_files =
          <<TargetPath(Str_2022), TargetPath(Str_2021), TargetPath(Unknown_Date)>>
    /\ attempted = <<2, 3, 1>>

(***************************************************************************)
(* Claims on the modes and on the result (SpecRun)                         *)
(***************************************************************************)
\* C21: folder is one of the modes a run accepts.  A run in folder mode over
\* a non-empty filtered item set, with no failure and no cancellation, has
\* reached the bucket loop with one bucket per top-level folder and returns
\* one created destination per folder bucket.
C21_FolderModeRuns ==
    (mode = "folder" /\ Returned /\ ~cancel /\ ~dry_run /\ NoOtherFailureThanMode
            /\ items # <<>>) =>
        LET d == _group_by_folder(items)
        IN /\ groups = DictValues(d)
           /\ group_names = DictKeys(d)
           /\ result.created_files = [j \in 1..Len(d) |-> TargetPath(DictKeys(d)[j])]

(***************************************************************************)
(* Specification SpecGui: start requests of the window and its worker      *)
(* threads (gui.py).  The handlers of the window run one at a time on the  *)
(* thread of the event loop; the worker threads run beside it.             *)
(***************************************************************************)
\* threading.Thread.is_alive() of thread t; t = 0 stands for None
is_alive(t) == t # 0 /\ threads[t].state # "dead"

\* the sizes the size field of the window can hold
GuiSizes == {<<0>>, <<2>>}

\* the request is answered by a, with or without a worker alive
Answered(a) == gui_log' = Append(gui_log, [answer |-> a, busy |-> is_alive(worker)])

\* start_split with a slip: the test for a worker that is alive is missing
start_split_Unguarded(dry, inputs_ok, m, size) ==
    /\ Len(gui_log) < MaxRequests
    /\ ~dialog_open
    /\ IF ~inputs_ok \/ gui_rejects(m, size)
       THEN /\ Answered("invalid")
            /\ UNCHANGED <<worker, threads>>
       ELSE /\ threads' = Append(threads, [state |-> "started", dry_run |-> dry])
            /\ worker' = Len(threads) + 1
            /\ Answered("started")
    /\ UNCHANGED <<groupVars, filterVars, splitVars, outlook_available,
                   stream_size_mode, summary_csv, exit_status, fetchers, dialog_open>>

\* PSTSplitterApp.start_split: a worker that is alive is answered with the
\* warning "Operation Running"; inputs that fail a check are answered with an
\* error box; else a worker thread is created, kept in _worker and started.
\* While the Fetch Folders dialog holds the grab the main window takes no
\* request.
start_split(dry, inputs_ok, m, size) ==
    /\ Len(gui_log) < MaxRequests
    /\ ~dialog_open
    /\ IF is_alive(worker)
       THEN /\ Answered("busy")
            /\ UNCHANGED <<worker, threads>>
       ELSE IF ~inputs_ok \/ gui_rejects(m, size)
       THEN /\ Answered("invalid")
            /\ UNCHANGED <<worker, threads>>
       ELSE /\ threads' = Append(threads, [state |-> "started", dry_run |-> dry])
            /\ worker' = Len(threads) + 1
            /\ Answered("started")
    /\ UNCHANGED <<groupVars, filterVars, splitVars, outlook_available,
                   stream_size_mode, summary_csv, exit_status, fetchers, dialog_open>>

\* the function work of start_split on thread t: COM initialisation, the call
\* of split_pst, its return or its exception, and the end of the thread
work(t) ==
    /\ threads[t].state # "dead"
    /\ threads' = [threads EXCEPT ![t].state =
                      CASE threads[t].state = "started" -> "split_pst"
                        [] threads[t].state = "split_pst" -> "returned"
                        [] threads[t].state = "returned" -> "dead"]
    /\ UNCHANGED <<groupVars, filterVars, splitVars, outlook_available,
                   stream_size_mode, summary_csv, exit_status, worker, gui_log,
                   fetchers, dialog_open>>

\* the folder-fetch requests studied in one behaviour
MaxFetches == 2

\* PSTSplitterApp._fetch_and_select_folders: with a split worker alive the
\* request is answered "Busy", without a source file "Missing"; else the
\* modal dialog is opened and a thread running `worker` is started, which
\* _worker does not refer to
_fetch_and_select_folders(source_exists) ==
    /\ ~dialog_open
    /\ Len(fetchers) < MaxFetches
    /\ IF is_alive(worker) \/ ~source_exists
       THEN UNCHANGED <<fetchers, dialog_open>>
       ELSE /\ dialog_open' = TRUE
            /\ fetchers' = Append(fetchers, "started")
    /\ UNCHANGED <<groupVars, filterVars, splitVars, outlook_available,
                   stream_size_mode, summary_csv, exit_status, worker, threads, gui_log>>

\* the dialog is closed by Cancel, by Apply or by its window button; the
\* fetch thread is not waited for
dialog_destroy ==
    /\ dialog_open
    /\ dialog_open' = FALSE
    /\ UNCHANGED <<groupVars, filterVars, splitVars, outlook_available,
                   stream_size_mode, summary_csv, exit_status, worker, threads, gui_log,
                   fetchers>>

\* the function worker of _fetch_and_select_folders on fetch thread f:
\* ns.AddStore on the source, the enumeration of its folders, ns.RemoveStore
\* in the finally clause, and the end of the thread
fetch_worker(f) ==
    /\ fetchers[f] # "dead"
    /\ fetchers' = [fetchers EXCEPT ![f] =
                       CASE fetchers[f] = "started" -> "enumerating"
                         [] fetchers[f] = "enumerating" -> "detaching"
                         [] fetchers[f] = "detaching" -> "dead"]
    /\ UNCHANGED <<groupVars, filterVars, splitVars, outlook_available,
                   stream_size_mode, summary_csv, exit_status, worker, threads, gui_log,
                   dialog_open>>

InitGui ==
    /\ GuiIdle
    /\ outlook_available = TRUE /\ stream_size_mode = FALSE
    /\ exit_status = NotExited
    /\ RunIdle
    /\ FilterIdle
    /\ items = <<>> /\ max_bytes = 0 /\ phase = "input" /\ buckets = <<>> /\ keys = <<>>

NextGui ==
    \/ \E dry \in BOOLEAN, inputs_ok \in BOOLEAN, m \in {"size", "year"}, size \in GuiSizes :
          start_split(dry, inputs_ok, m, size)
    \/ \E t \in 1..Len(threads) : work(t)
    \/ \E source_exists \in BOOLEAN : _fetch_and_select_folders(source_exists)
    \/ dialog_destroy
    \/ \E f \in 1..Len(fetchers) : fetch_worker(f)

SpecGui == InitGui /\ [][NextGui]_vars

\* the threads that are executing split_pst
InSplitPst == {t \in 1..Len(threads) : threads[t].state = "split_pst"}

\* the start requests answered by a
AnsweredBy(a) == {i \in 1..Len(gui_log) : gui_log[i].answer = a}

\* C22: only one run is active at a time.  A start request made while a
\* worker thread is alive is answered with the busy warning and starts no
\* thread, then or later: the threads ever created are exactly as many as the
\* requests answered by a start; at most one worker thread is alive and at
\* most one thread is executing split_pst.
C22_OneRunAtATime ==
    /\ \A i \in 1..Len(gui_log) : gui_log[i].busy <=> gui_log[i].answer = "busy"
    /\ Len(threads) = Cardinality(AnsweredBy("started"))
    /\ Cardinality({t \in 1..Len(threads) : is_alive(t)}) <= 1
    /\ Cardinality(InSplitPst) <= 1
    /\ \A t \in 1..Len(threads) : is_alive(t) => t = worker

\* a request was answered busy while a thread was executing split_pst, and a
\* later request, made after that thread had ended, started a second run
C22_Witness ==
    /\ Len(threads) = 2
    /\ threads[1].state = "dead" /\ threads[2].state = "split_pst"
    /\ AnsweredBy("busy") # {}
    /\ \E i \in AnsweredBy("busy") : \E j \in AnsweredBy("started") : i < j

(***************************************************************************)
(* Claims on the command line (SpecRun)                                    *)
(***************************************************************************)
\* main has ended
Exited == caller = "cli" /\ exit_status # NotExited

\* C23: exit status of the command.  main ends with 0 for every run that was
\* started and returned a result, with or without recorded errors, and with
\* a non-zero status only when one of its own checks (mail system missing,
\* size missing in size mode, --stream outside size mode) kept it from
\* calling split_pst.
C23_ExitStatus ==
    Exited =>
        /\ result.kind = "SplitResult" => exit_status = 0
        /\ exit_status # 0 => result = [kind |-> "rejected", by |-> "cli"]
        /\ result.kind = "rejected" <=> ap_error

\* C23 for the command lines that give no negative size
C23_ExitStatus_NonNegative ==
    (Exited /\ ~(max_size_bytes # None /\ IntOf(max_size_bytes) < 0)) =>
        /\ result.kind = "SplitResult" => exit_status = 0
        /\ exit_status # 0 => result = [kind |-> "rejected", by |-> "cli"]
        /\ result.kind = "rejected" <=> ap_error

(***************************************************************************)
(* Claims on the returned result (SpecRun)                                 *)
(***************************************************************************)
\* C24: in every SplitResult split_pst returns, on any exit path, errors is
\* either None or a non-empty list; it is None exactly when the run recorded
\* no error and did not end on the cancellation check after enumeration.
C24_ErrorsNoneOrNonEmpty ==
    Returned =>
        /\ result.errors.is_none \/ result.errors.list # <<>>
        /\ result.errors.is_none => result.errors.list = <<>>
        /\ (result.errors.is_none /\ groups # <<>>) => errors = <<>>

\* a run has returned errors = None through the final return although its
\* report export failed, after both of its buckets were processed
C24_Witness ==
    /\ Returned /\ result.errors = ErrorsNone
    /\ fault.at = "export"
    /\ Len(result.created_files) = 2

\* C25: totals reflect what was attempted.  In the result of a run that was
\* not cancelled, total_items is the number of filtered items and total_bytes
\* is the sum of the sizes of the items of all buckets, whatever the outcome
\* of the item transfers and of the buckets.
C25_TotalsReflectAttempted ==
    (Returned /\ ~cancel) =>
        /\ result.total_items = Len(items)
        /\ result.total_bytes = SumSizes(Flatten(groups))

\* the totals of a run that was not cancelled, with the buckets that ended in
\* a bucket-level error left out of total_bytes
TotalsWithoutFailedBuckets ==
    (Returned /\ ~cancel) =>
        /\ result.total_items = Len(items)
        /\ result.total_bytes =
              SumSizes(Flatten([j \in 1..Len(groups) |->
                                   IF BucketFails(j) THEN <<>> ELSE groups[j]]))

(***************************************************************************)
(* Claims on the safety downgrade and on enumeration (SpecRun)             *)
(***************************************************************************)
\* the health check of the run is behind it
PastHealthCheck == pc \notin {"idle", "entry", "call", "health"} /\ result.kind \notin {"rejected", "raised"}

\* C26: one-way safety downgrade.  When the source is CRITICAL the health
\* check leaves turbo mode off and goes on to the session and the
\* enumeration instead of ending the run; from then to the end of the run
\* turbo mode stays off, no step switches it on again, and the batch size of
\* the transfer is the standard one.
C26_OneWayDowngrade ==
    [][ /\ (risk = "CRITICAL" /\ pc = "health" /\ pc' # pc) =>
              pc' = "session" /\ ~turbo_mode'
        /\ (risk = "CRITICAL" /\ PastHealthCheck) =>
              /\ ~turbo_mode /\ ~turbo_mode'
              /\ batch_size' \in {0, StandardBatchSize}
              /\ (pc = "session" /\ pc' # pc /\ fault = NoFault) =>
                    pc' = "enumerate" /\ batch_size' = StandardBatchSize
        /\ (PastHealthCheck /\ ~turbo_mode) => ~turbo_mode' ]_vars

\* a run on a CRITICAL source for which turbo mode was asked has transferred
\* items in batches of the standard size and has returned
C26_Witness ==
    /\ risk = "CRITICAL" /\ Returned
    /\ ~turbo_mode /\ batch_size = StandardBatchSize
    /\ Len(attempted) > StandardBatchSize
    /\ results.batches_processed >= 1

\* C27: capacity-exceeded recovery is bounded.  The source is enumerated at
\* most twice in a run, and a second time only after a capacity error of the
\* first pass, which is then retried exactly once; when the retry fails too
\* the error is an entry of the returned errors, nothing was enumerated and
\* no further pass is made; when the retry succeeds the run goes on without
\* an error for it.
C27_BoundedRecovery ==
    /\ enumerations <= 2
    /\ enumerations = 2 => fault.at = "capacity"
    /\ pc = "enumerate_retry" => enumerations = 1
    /\ (fault.at = "capacity" /\ pc \in {"enumerated", "loop", "finally", "export", "done"}
            /\ enumerations >= 1) =>
          enumerations = 2
    /\ (Returned /\ fault.at = "capacity" /\ enumerations = 2) =>
          IF fault.bucket >= 2
          THEN /\ HasRunError("capacity")
               /\ Len(result.errors.list) = 1
               /\ items = <<>> /\ groups = <<>> /\ attempted = <<>>
          ELSE ~HasRunError("capacity") /\ (~cancel => items = store_items)

\* a run whose enumeration would fail three times over has returned after two
\* passes with the capacity error in its errors
C27_Witness ==
    /\ Returned
    /\ fault.at = "capacity" /\ fault.bucket >= 3
    /\ enumerations = 2
    /\ HasRunError("capacity")

(***************************************************************************)
(* Claims on the files a run writes (SpecRun)                              *)
(***************************************************************************)
\* C28: summary export.  A run that was given a summary path and has
\* completed, with destinations created, has written to that path (one
\* record per created destination).
C28_SummaryWritten ==
    (Returned /\ summary_csv # None /\ ~cancel /\ exported /\ fault = NoFault
            /\ result.created_files # <<>>) =>
        summary_csv \in written

\* what the code does with the summary path: no run ever writes to it
SummaryNeverWritten == summary_csv # None => summary_csv \notin written

(***************************************************************************)
(* Specification SpecCliFilter: the item filter behind cli --date-range    *)
(***************************************************************************)
Str_Mar01_Mar31 == <<"2","0","2","1","-","0","3","-","0","1",":","2","0","2","1","-","0","3","-","3","1">>
Str_Mar31_Mar31 == <<"2","0","2","1","-","0","3","-","3","1",":","2","0","2","1","-","0","3","-","3","1">>
Str_Mar01 == <<"2","0","2","1","-","0","3","-","0","1">>
Str_Mar01_open == <<"2","0","2","1","-","0","3","-","0","1",":">>
Str_until_Mar31 == <<":","2","0","2","1","-","0","3","-","3","1">>

CliDateSpecs == {None, Str_Mar01_Mar31, Str_Mar31_Mar31, Str_Mar01, Str_Mar01_open,
                 Str_until_Mar31}

InitCliFilter ==
    /\ \E ks \in SeqsUpTo(FilterKinds, MaxFilterLen) : items = ItemsOfFilterKinds(ks)
    /\ include_folders \in FolderSets
    /\ exclude_folders \in FolderSets
    /\ sender_domains \in DomainSets
    /\ date_spec \in CliDateSpecs
    /\ date_range = None
    /\ filtered = <<>>
    /\ refiltered = <<>>
    /\ phase = "args"
    /\ max_bytes = 0
    /\ buckets = <<>>
    /\ keys = <<>>
    /\ RunIdle

\* cli.main: date_rng = _parse_date_range(args.date_range) if args.date_range
\* else None
ParseDateRange ==
    /\ phase = "args"
    /\ date_range' = IF date_spec # None THEN _parse_date_range(date_spec) ELSE None
    /\ phase' = "input"
    /\ UNCHANGED <<items, max_bytes, buckets, keys, include_folders, exclude_folders,
                   sender_domains, date_spec, filtered, refiltered, runVars>>

NextCliFilter ==
    \/ ParseDateRange
    \/ ApplyFilters
    \/ ApplyFiltersAgain

SpecCliFilter == InitCliFilter /\ [][NextCliFilter]_vars

\* the received time is on the day y-m-d, at any hour
OnDay(received, y, m, d) ==
    received # None /\ received[1] = y /\ received[2] = m /\ received[3] = d

\* the received time is on the day y-m-d or later
OnOrAfterDay(received, y, m, d) ==
    received # None /\ ~DtLess(received, <<y, m, d, 0>>)

NoOtherFilter == include_folders = {} /\ exclude_folders = {} /\ sender_domains = {}

\* C29: the command-line date range 'YYYY-MM-DD:YYYY-MM-DD' is end-inclusive:
\* with --date-range 2021-03-01:2021-03-31 (and no other filter) every item
\* received on 2021-03-31, at any time of that day, is kept by the filter; and
\* with the single date 2021-03-01 every item received on or after that date
\* is kept.
C29_EndInclusive ==
    (Filtered /\ NoOtherFilter) =>
        /\ date_spec = Str_Mar01_Mar31 =>
              \A k \in 1..Len(items) :
                  OnDay(items[k].received, 2021, 3, 31) => IsKept(items[k])
        /\ date_spec = Str_Mar01 =>
              \A k \in 1..Len(items) :
                  OnOrAfterDay(items[k].received, 2021, 3, 1) => IsKept(items[k])

\* what the filter does keep: with a single date every item received on or
\* after that date, and with an end date the items received up to 00:00 of it
SingleDateKeepsFromThatDay ==
    (Filtered /\ NoOtherFilter /\ date_spec \in {Str_Mar01, Str_Mar01_open}) =>
        \A k \in 1..Len(items) :
            OnOrAfterDay(items[k].received, 2021, 3, 1) <=> IsKept(items[k])

EndDayKeptAtMidnightOnly ==
    (Filtered /\ NoOtherFilter /\ date_spec = Str_Mar01_Mar31) =>
        \A k \in 1..Len(items) :
            OnDay(items[k].received, 2021, 3, 31) =>
                (IsKept(items[k]) <=> items[k].received[4] = 0)

\* the enumeration has ended and the cancel event is set
CancelledByEndOfEnumeration == pc = "enumerated" /\ cancel

\* what a run has filtered, grouped, created and handed to the transfer
WorkOfRun == <<items, filtered, refiltered, groups, group_names, gi, created_files,
               attempted, succeeded, cumulative_processed, total_items, total_bytes>>

\* C30: cancellation during enumeration.  If the cancel event is set by the
\* time the enumeration ends, the next step of split_pst is its return, with
\* total_items = 0 and total_bytes = 0, and neither that step nor any later
\* one of the run filters, groups, creates a destination or transfers an
\* item.
C30_CancelledEnumeration ==
    /\ [][CancelledByEndOfEnumeration =>
              /\ result'.kind = "SplitResult"
              /\ result'.total_items = 0 /\ result'.total_bytes = 0
              /\ pc' = "finally"
              /\ UNCHANGED WorkOfRun]_vars
    /\ [][(result # NoResult /\ pc \in {"finally", "done"}) =>
              /\ result' = result
              /\ pc' \in {"finally", "done"}
              /\ UNCHANGED WorkOfRun]_vars

C30_Witness ==
    /\ pc = "done" /\ cancel /\ result.kind = "SplitResult"
    /\ result.total_items = 0 /\ result.total_bytes = 0
    /\ items # <<>> /\ groups = <<>> /\ created_files = <<>> /\ attempted = <<>>
    /\ enumerations = 1

(***************************************************************************)
(* Claims on the stores left attached (SpecRun)                            *)
(***************************************************************************)
\* split_pst has ended, by a return or by an exception
CallEnded == pc = "done" /\ result.kind \in {"SplitResult", "raised"}

\* C31: no store is left attached.  When split_pst has ended, on every exit
\* path, a detach has been issued for the source and for every destination
\* the run created: unless the detach calls themselves fail, no store that
\* the run attached is attached any more.
C31_NoStoreLeftAttached ==
    (CallEnded /\ fault.at # "detach") => attached = {}

\* what the finally clause does detach: the source and the destinations that
\* reached created_files; the stores left are destinations of buckets that
\* failed or were cancelled after their creation
OnlyAbandonedDestinationsLeft ==
    (CallEnded /\ fault.at # "detach") =>
        /\ SourcePath \notin attached
        /\ \A i \in 1..Len(created_files) : created_files[i] \notin attached
        /\ attached # {} => (cancel \/ zero_time # {})

(***************************************************************************)
(* Claims on the progress reports (SpecRun)                                *)
(***************************************************************************)
\* C32: progress is cumulative.  During one run the 'done' values handed to
\* the progress callback never decrease from one report to the next and
\* never exceed 'total', the number of items after filtering, also when item
\* transfers of a bucket fail.
C32_ProgressCumulative ==
    /\ [](progress <= total_items)
    /\ [][progress' >= progress]_vars

\* the reports never exceed the total
ProgressWithinTotal == progress <= total_items

\* the reports of a run in which every transfer succeeds never decrease
ProgressMonotoneWithoutFailures ==
    [][(\A k \in 1..Len(outcome) : outcome[k] = "copied") => progress' >= progress]_vars

(***************************************************************************)
(* Claims on the telemetry of the transfer batcher (SpecRun)               *)
(***************************************************************************)
\* bucket j has an error entry for a division by zero
FailedByDivision(j) ==
    \E i \in 1..Len(errors) :
        /\ IsGroupError(errors[i])
        /\ errors[i].name = group_names[j]
        /\ errors[i].cause = "float division by zero"

\* C33: telemetry never divides by zero.  copy_items_optimized computes its
\* final metrics without a division by zero, also when the elapsed time it
\* measured is 0 ms: no bucket whose items were handed to the transfer is
\* turned into a failed bucket by the metrics.
C33_NoDivisionByZero ==
    \A j \in 1..Len(group_names) : ~FailedByDivision(j)

\* with a measured time above zero for every bucket the metrics never fail
MetricsFailOnlyOnZeroTime ==
    \A j \in 1..Len(group_names) : FailedByDivision(j) => j \in zero_time

(***************************************************************************)
(* Claims on the batch size (SpecRun)                                      *)
(***************************************************************************)
\* copy_items_optimized has returned for bucket gi without seeing the cancel
\* event
BatcherReturned == pc = "tail" /\ ~results.cancelled

\* the last n entries of a sequence
LastOf(seq, n) == SubSeq(seq, Len(seq) - n + 1, Len(seq))

\* the items of a list whose transfer does not raise
TransferableIn(its) ==
    {i \in 1..Len(its) : outcome[its[i].entry_id.key] # "raised"}

\* C34: batch size is not a correctness parameter.  Without cancellation what
\* copy_items_optimized does for a bucket is fixed by the item list and the
\* per-item outcomes alone, the same with batch size 50 as with batch size
\* 100: it hands every item of the bucket to the transfer once, in list
\* order, and returns the number of transfers that did not raise as
\* success_count and the same failed_items; only batches_processed follows
\* the batch size.
C34_BatchSizeNoCorrectnessParameter ==
    BatcherReturned =>
        /\ batch_size \in {StandardBatchSize, TurboBatchSize}
        /\ Len(attempted) >= Len(CurGroup)
        /\ LastOf(attempted, Len(CurGroup)) = KeysOf(CurGroup)
        /\ results.success_count = Cardinality(TransferableIn(CurGroup))
        /\ results.failed_items = <<>>
        /\ results.batches_processed =
              (Len(CurGroup) + batch_size - 1) \div batch_size

\* C34 witness: a bucket of more than 50 items with a failing transfer has
\* been processed in one batch of the turbo size
C34_Witness ==
    /\ BatcherReturned
    /\ batch_size = TurboBatchSize
    /\ Len(CurGroup) > StandardBatchSize
    /\ results.batches_processed = 1
    /\ results.success_count < Len(CurGroup)

\* the same bucket processed in two batches of the standard size
C34_StandardRun ==
    /\ BatcherReturned
    /\ batch_size = StandardBatchSize
    /\ Len(CurGroup) > StandardBatchSize
    /\ results.batches_processed = 2
    /\ results.success_count < Len(CurGroup)

(***************************************************************************)
(* Specification SpecCopy: one call of _optimized_item_transfer, through   *)
(* OutlookSession.copy_item_to_store                                       *)
(***************************************************************************)
\* copy_item_to_store: attempts = 10
PollAttempts == 10

\* copy_item_to_store: delay = 0.2 * attempt, in tenths of a second
DelayTenths(attempt) == 2 * attempt

\* the latest lookup at which the destination store becomes visible in the
\* calls under study (0: it never does)
MaxReadyAt == 11

\* what item.Move / item.Copy can do
CopyErrors == {"none", "maximum size", "other"}

InitCopy ==
    /\ \E found \in BOOLEAN, r \in 0..MaxReadyAt, ce \in CopyErrors, mv \in BOOLEAN :
          copy_call = [CopyIdle EXCEPT !.pc = "get_item", !.item_found = found,
                                       !.ready_at = r, !.copy_error = ce, !.move = mv]
    /\ handler = HandlerIdle
    /\ chunked = NotChunked
    /\ AppIdle
    /\ pc = "idle" /\ cancel = FALSE /\ mode = "size" /\ max_size_bytes = None
    /\ caller = "api" /\ fault = NoFault /\ exported = FALSE
    /\ turbo_mode = FALSE /\ dry_run = FALSE /\ risk = "LOW"
    /\ store_items = <<>> /\ outcome = <<>> /\ zero_time = {}
    /\ total_items = 0 /\ total_bytes = 0 /\ groups = <<>> /\ group_names = <<>>
    /\ gi = 0 /\ created_files = <<>> /\ errors = <<>>
    /\ cumulative_processed = 0 /\ progress = -1 /\ attached = {}
    /\ batch_size = 0 /\ batch_start = 0 /\ item_pos = 0 /\ processed_count = 0
    /\ batch_success = 0 /\ results = NewResults /\ attempted = <<>>
    /\ succeeded = {} /\ result = NoResult
    /\ enumerations = 0 /\ written = {}
    /\ FilterIdle
    /\ items = <<>> /\ max_bytes = 0 /\ phase = "input" /\ buckets = <<>> /\ keys = <<>>

\* copy_item_to_store: GetItemFromID; an item that cannot be resolved ends the
\* call by a plain return
GetItem ==
    /\ copy_call.pc = "get_item"
    /\ copy_call' = IF copy_call.item_found
                    THEN [copy_call EXCEPT !.pc = "poll", !.attempt = 1]
                    ELSE [copy_call EXCEPT !.pc = "returned"]
    /\ UNCHANGED <<groupVars, filterVars, appVars, runCore, handler, chunked>>

\* the destination store is among namespace.Stores at this lookup
StoreVisible == copy_call.ready_at # 0 /\ copy_call.attempt >= copy_call.ready_at

\* copy_item_to_store: one pass of the loop that looks for the destination
\* store, with the sleep that follows an unsuccessful lookup other than the
\* last; after the last one `if not dest_store: ... return`
FindDestStore ==
    /\ copy_call.pc = "poll"
    /\ copy_call' =
          IF StoreVisible
          THEN [copy_call EXCEPT !.dest_store = TRUE, !.pc = "transfer"]
          ELSE IF copy_call.attempt < PollAttempts
          THEN [copy_call EXCEPT !.slept = Append(@, DelayTenths(copy_call.attempt)),
                                 !.attempt = @ + 1]
          ELSE [copy_call EXCEPT !.pc = "returned"]
    /\ UNCHANGED <<groupVars, filterVars, appVars, runCore, handler, chunked>>

\* copy_item_to_store: the item is moved, or copied and the copy moved; an
\* exception is raised again, as PSTSizeExceededException for a full store
MoveOrCopy ==
    /\ copy_call.pc = "transfer"
    /\ copy_call' =
          IF copy_call.copy_error = "none"
          THEN [copy_call EXCEPT !.transferred = IF copy_call.move THEN "moved" ELSE "copied",
                                 !.pc = "returned"]
          ELSE [copy_call EXCEPT !.pc = "raised"]
    /\ UNCHANGED <<groupVars, filterVars, appVars, runCore, handler, chunked>>

\* _optimized_item_transfer: True after copy_item_to_store has returned, False
\* after it has raised
OptimizedTransferReturns ==
    /\ copy_call.pc \in {"returned", "raised"}
    /\ copy_call' = [copy_call EXCEPT
                        !.returns = IF copy_call.pc = "returned" THEN "True" ELSE "False",
                        !.pc = "done"]
    /\ UNCHANGED <<groupVars, filterVars, appVars, runCore, handler, chunked>>

NextCopy ==
    \/ GetItem
    \/ FindDestStore
    \/ MoveOrCopy
    \/ OptimizedTransferReturns

SpecCopy == InitCopy /\ [][NextCopy]_vars

\* the delays slept so far grow from one to the next
DelaysGrow ==
    \A i \in 1..Len(copy_call.slept) : \A j \in 1..Len(copy_call.slept) :
        i < j => copy_call.slept[i] < copy_call.slept[j]

\* the call has looked for the destination store to the last attempt and has
\* not found it
StoreNeverFound ==
    /\ copy_call.pc = "done"
    /\ copy_call.item_found /\ ~copy_call.dest_store

\* C35: destination-ready polling is bounded and ends in a failure.
\* copy_item_to_store looks for the destination store at most 10 times, with
\* a growing delay between the attempts, and when the store is still not
\* found after the last attempt the transfer is reported as a failure, never
\* as a success.
C35_PollingEndsInFailure ==
    /\ copy_call.attempt <= PollAttempts
    /\ Len(copy_call.slept) < PollAttempts
    /\ DelaysGrow
    /\ StoreNeverFound => copy_call.returns = "False"

\* the bounded half: at most 10 lookups, 9 growing delays, and a store that is
\* found is found at the lookup at which it became visible
PollingBounded ==
    /\ copy_call.attempt <= PollAttempts
    /\ Len(copy_call.slept) < PollAttempts
    /\ Len(copy_call.slept) = (IF copy_call.attempt = 0 THEN 0 ELSE copy_call.attempt - 1)
    /\ DelaysGrow
    /\ copy_call.dest_store => copy_call.attempt = copy_call.ready_at

\* a store never found: nothing is transferred and the transfer counts as done
NotFoundIsReportedAsSuccess ==
    StoreNeverFound =>
        /\ copy_call.attempt = PollAttempts
        /\ copy_call.transferred = "no"
        /\ copy_call.returns = "True"

(***************************************************************************)
(* Claims on the threads that drive the mail store (SpecGui)               *)
(***************************************************************************)
\* the fetch threads that have attached the source store and not yet ended
\* its removal
FetchersInStore ==
    {f \in 1..Len(fetchers) : fetchers[f] \in {"enumerating", "detaching"}}

\* C36: the mail store is driven by one thread at a time.  At no point do two
\* threads of the application access the mail store: while a folder-fetch
\* worker is attaching, enumerating or detaching the source store no split
\* worker is running on it, and while a split worker is running no
\* folder-fetch worker detaches the source store.
C36_OneThreadOnTheStore ==
    /\ Cardinality(InSplitPst) + Cardinality(FetchersInStore) <= 1
    /\ InSplitPst # {} => \A f \in 1..Len(fetchers) : fetchers[f] # "detaching"

\* the one direction the window does guard: no fetch thread is created while
\* a split worker is alive
NoFetchStartedDuringSplit ==
    [][Len(fetchers') > Len(fetchers) => ~is_alive(worker)]_vars

(***************************************************************************)
(* Specification SpecRunFair: split_pst when every call it makes returns   *)
(***************************************************************************)
\* a step of the caller, of split_pst or of copy_items_optimized
RunStep ==
    \/ Invoke
    \/ Validate
    \/ HealthCheck
    \/ OpenSession
    \/ Enumerate
    \/ EnumerateRetry
    \/ FilterAndGroup
    \/ LeaveLoop
    \/ StartGroup
    \/ BatchHead
    \/ TransferItem
    \/ CancelInBatch
    \/ BatchComplete
    \/ Metrics
    \/ GroupTail
    \/ Finally
    \/ ExportReport
    \/ MainReturns

\* every mail-store call returns: the thread of the run is never stopped for
\* ever in front of a step it can take
\* small sources with every assignment of transfer outcomes, split by size
\* with no step made to fail but the enumeration, and the command lines of
\* SpecRun
InitFairRun ==
    /\ \/ /\ InitSmallRun
          /\ mode = "size" /\ fault.at \in {"none", "capacity"}
          /\ zero_time = {} /\ ~dry_run
          /\ AppIdle
       \/ InitCliRun
    /\ RunStart

SpecRunFair == InitFairRun /\ [][NextRun]_vars /\ WF_vars(RunStep)

\* C37: cancellation leads to termination.  Once the cancel event is set, a
\* run whose calls all return reaches the return of split_pst; from the first
\* check that observes the event on no item is handed to the transfer, and no
\* destination is created or attached any more.
C37_CancelLeadsToReturn ==
    /\ cancel ~> pc = "done"
    /\ [][cancel => /\ attempted' = attempted
                    /\ (attached' \ attached) \subseteq {SourcePath}]_vars

\* C37 witness: a run cancelled after a transfer has returned with bucket gi
\* not processed to its end and items never handed to the transfer
C37_Witness ==
    /\ pc = "done" /\ cancel /\ result.kind = "SplitResult"
    /\ attempted # <<>>
    /\ gi >= 1 /\ gi <= Len(groups)
    /\ Len(attempted) < Len(items)

(***************************************************************************)
(* Specification SpecHandler: UltimatePSTHandler.handle_critically_full_pst *)
(***************************************************************************)
\* the strategies in the order of the code, and the labels of their errors
StrategyOrder == <<"move_only", "export_reimport", "direct_mapi", "item_by_item_skip">>
StrategyLabel == <<"Move-Only", "Export-Reimport", "Direct MAPI", "Item-by-Item">>

\* what a strategy can do: return a result with success true, return one with
\* success false, or raise
StrategyOutcomes == {"success", "no_success", "raised"}

InitHandler ==
    /\ \E o \in [1..Len(StrategyOrder) -> StrategyOutcomes] :
          handler = [HandlerIdle EXCEPT !.pc = "strategy", !.outcomes = o]
    /\ copy_call = CopyIdle
    /\ chunked = NotChunked
    /\ AppIdle
    /\ pc = "idle" /\ cancel = FALSE /\ mode = "size" /\ max_size_bytes = None
    /\ caller = "api" /\ fault = NoFault /\ exported = FALSE
    /\ turbo_mode = FALSE /\ dry_run = FALSE /\ risk = "LOW"
    /\ store_items = <<>> /\ outcome = <<>> /\ zero_time = {}
    /\ total_items = 0 /\ total_bytes = 0 /\ groups = <<>> /\ group_names = <<>>
    /\ gi = 0 /\ created_files = <<>> /\ errors = <<>>
    /\ cumulative_processed = 0 /\ progress = -1 /\ attached = {}
    /\ batch_size = 0 /\ batch_start = 0 /\ item_pos = 0 /\ processed_count = 0
    /\ batch_success = 0 /\ results = NewResults /\ attempted = <<>>
    /\ succeeded = {} /\ result = NoResult
    /\ enumerations = 0 /\ written = {}
    /\ FilterIdle
    /\ items = <<>> /\ max_bytes = 0 /\ phase = "input" /\ buckets = <<>> /\ keys = <<>>

\* TryStrategy with a slip: a strategy that succeeded does not end the call
TryStrategy_FallsThrough(k) ==
    /\ handler.pc = "strategy"
    /\ Len(handler.tried) = k - 1
    /\ LET out == handler.outcomes[k]
           next == IF k = Len(StrategyOrder) THEN "all_failed" ELSE "strategy"
       IN handler' =
            [handler EXCEPT
                !.tried = Append(@, StrategyOrder[k]),
                !.results =
                    CASE out = "success" ->
                            [@ EXCEPT !.success = TRUE, !.method_used = <<StrategyOrder[k]>>]
                      [] out = "raised" ->
                            [@ EXCEPT !.errors = Append(@, StrategyLabel[k])]
                      [] OTHER -> @,
                !.pc = next]
    /\ UNCHANGED <<groupVars, filterVars, appVars, runCore, copy_call, chunked>>

\* handle_critically_full_pst: the try block of strategy k.  A result with
\* success true is merged into results, method_used is set and the call
\* returns; an exception is appended to results['errors']; else the next
\* block follows
TryStrategy(k) ==
    /\ handler.pc = "strategy"
    /\ Len(handler.tried) = k - 1
    /\ LET out == handler.outcomes[k]
           next == IF k = Len(StrategyOrder) THEN "all_failed" ELSE "strategy"
       IN handler' =
            [handler EXCEPT
                !.tried = Append(@, StrategyOrder[k]),
                !.results =
                    CASE out = "success" ->
                            [@ EXCEPT !.success = TRUE, !.method_used = <<StrategyOrder[k]>>]
                      [] out = "raised" ->
                            [@ EXCEPT !.errors = Append(@, StrategyLabel[k])]
                      [] OTHER -> @,
                !.pc = IF out = "success" THEN "returned" ELSE next]
    /\ UNCHANGED <<groupVars, filterVars, appVars, runCore, copy_call, chunked>>

\* handle_critically_full_pst: "All ultimate strategies failed", return results
AllStrategiesFailed ==
    /\ handler.pc = "all_failed"
    /\ handler' = [handler EXCEPT !.pc = "returned"]
    /\ UNCHANGED <<groupVars, filterVars, appVars, runCore, copy_call, chunked>>

NextHandler ==
    \/ \E k \in 1..Len(StrategyOrder) : TryStrategy(k)
    \/ AllStrategiesFailed

SpecHandler == InitHandler /\ [][NextHandler]_vars

\* the strategies that report success in this call
Succeeding == {k \in 1..Len(handler.outcomes) : handler.outcomes[k] = "success"}

\* C38: the fallback strategy chain.  The strategies are attempted in the
\* order move_only, export_reimport, direct_mapi, item_by_item_skip; one is
\* attempted only if every earlier one raised or reported no success; the
\* call returns at the first strategy that reports success, with method_used
\* naming it and no later strategy attempted; if none succeeds the result has
\* success = false and method_used = None.
C38_FallbackChain ==
    /\ \A i \in 1..Len(handler.tried) :
          /\ handler.tried[i] = StrategyOrder[i]
          /\ \A j \in 1..(i - 1) : handler.outcomes[j] # "success"
    /\ handler.pc = "returned" =>
          IF Succeeding # {}
          THEN LET first == CHOOSE k \in Succeeding : \A j \in Succeeding : k <= j
               IN /\ handler.results.success
                  /\ handler.results.method_used = <<StrategyOrder[first]>>
                  /\ Len(handler.tried) = first
          ELSE /\ ~handler.results.success
               /\ handler.results.method_used = None
               /\ Len(handler.tried) = Len(StrategyOrder)

\* C38 witness: after an exception and a result without success the third
\* strategy has succeeded and the fourth, which would succeed, was not tried
C38_Witness ==
    /\ handler.pc = "returned"
    /\ handler.outcomes = <<"raised", "no_success", "success", "success">>
    /\ handler.tried = <<"move_only", "export_reimport", "direct_mapi">>
    /\ handler.results.method_used = <<"direct_mapi">>

(***************************************************************************)
(* chunk_sequence (util.py), the stand-in the grouping tests compare with  *)
(* group_items_by_size: it chunks a list of sizes the way the splitter     *)
(* buckets the items that have those sizes.                                *)
(***************************************************************************)
ChunkStart == [out |-> <<>>, chunk |-> <<>>, total |-> 0]

\* the body of the for-loop of chunk_sequence with a slip: a chunk that is
\* exactly full is closed before the value that fills it is added
ChunkStep_ClosesFull(st, val, max_sum) ==
    IF val > max_sum
    THEN IF st.chunk # <<>>
         THEN [out |-> Append(Append(st.out, st.chunk), <<val>>),
               chunk |-> <<>>, total |-> 0]
         ELSE [st EXCEPT !.out = Append(@, <<val>>)]
    ELSE IF st.total + val >= max_sum
         THEN [out |-> Append(st.out, st.chunk), chunk |-> <<val>>, total |-> val]
         ELSE [st EXCEPT !.chunk = Append(@, val), !.total = @ + val]

\* the body of the for-loop of chunk_sequence, for value val
ChunkStep(st, val, max_sum) ==
    IF val > max_sum
    THEN IF st.chunk # <<>>
         THEN [out |-> Append(Append(st.out, st.chunk), <<val>>),
               chunk |-> <<>>, total |-> 0]
         ELSE [st EXCEPT !.out = Append(@, <<val>>)]
    ELSE IF st.total + val > max_sum
         THEN [out |-> Append(st.out, st.chunk), chunk |-> <<val>>, total |-> val]
         ELSE [st EXCEPT !.chunk = Append(@, val), !.total = @ + val]

\* the for-loop of chunk_sequence over vals[1..n], entered in ChunkStart
RECURSIVE ChunkLoop(_, _, _)
ChunkLoop(vals, n, max_sum) ==
    IF n = 0 THEN ChunkStart
    ELSE ChunkStep(ChunkLoop(vals, n - 1, max_sum), vals[n], max_sum)

chunk_sequence(vals, max_sum) ==
    LET st == ChunkLoop(vals, Len(vals), max_sum)
    IN IF st.chunk # <<>> THEN Append(st.out, st.chunk) ELSE st.out

\* the test calls chunk_sequence on the sizes of the items it hands to
\* group_items_by_size, with the same limit
CallChunkSequence ==
    /\ phase \in {"input", "size"}
    /\ ~chunked.returned
    /\ chunked' = [returned |-> TRUE, out |-> chunk_sequence(SizesOf(items), max_bytes)]
    /\ UNCHANGED <<groupVars, filterVars, appVars, runCore, copy_call, handler>>

NextChunk ==
    \/ CallGroupBySize
    \/ CallChunkSequence

SpecChunk == Init /\ [][NextChunk]_vars

\* C39: for every sequence of non-negative sizes and every limit above zero,
\* chunk_sequence on the sizes returns the lists of sizes of the buckets that
\* group_items_by_size returns for items with those sizes, and
\* chunk_sequence never emits an empty chunk.
C39_StandInAgrees ==
    /\ (chunked.returned /\ phase = "size") => chunked.out = BucketSizes(buckets)
    /\ chunked.returned => \A c \in 1..Len(chunked.out) : chunked.out[c] # <<>>

\* both functions have returned on a list where a zero-size item opens a
\* chunk, a chunk is filled exactly and an oversize item closes it
C39_Witness ==
    /\ chunked.returned /\ phase = "size"
    /\ max_bytes = 50
    /\ SizesOf(items) = <<0, 10, 40, 200>>
    /\ chunked.out = <<<<0, 10, 40>>, <<200>>>>

====
